---- MODULE Spec2Model ----
(***************************************************************************)
(* Model of the HTML sanitizer of Harurow/parser:                          *)
(*   - the Tokenizer finite-state machine (class Tokenizer),               *)
(*   - SanitizeParser.tokenizeHtml, which assembles Tokens from the        *)
(*     Tokenizer's callbacks,                                              *)
(*   - SanitizeParser.processTokens and its helpers, which render the      *)
(*     Tokens against the allow-list,                                      *)
(*   - SanitizeParser.sanitize, with its try/catch fallback,               *)
(*   - sanitizeHref and decodeEntities, which the onAttribute callback of  *)
(*     the "a" rule uses to vet href values,                               *)
(*   - the Parser of htmlparser with its own Tokenizer.                    *)
(* Strings are sequences of one-character strings; offsets into the        *)
(* buffer are 0-based as in the source, so buffer.slice(s, e) is           *)
(* SubSeq(buffer, s + 1, e).                                               *)
(***************************************************************************)
EXTENDS Integers, Sequences, FiniteSets, TLC

\* The Tokenizer of the latest call of tokenizeHtml, or of Tokenizer.parse,
\* with the variables its callbacks close over.
VARIABLE tokenizer

\* ------------------------------------------------------------------------
\* Bounds of the model
\* ------------------------------------------------------------------------

\* Number of characters that follow the first "<" of a markup input.
MaxLen == 4

\* Number of attributes written in the tag of an attribute input.
MaxAttrs == 2

\* Number of tags and texts an element input is made of.
MaxParts == 3

\* Number of spellings a raw href is made of.
MaxHrefParts == 3

\* Number of pieces a chunk handed to Tokenizer.parse is made of.
MaxParseParts == 3

\* Number of calls of sanitize on one parser.
MaxCalls == 3

\* Number of texts and tags the string of a value is made of.
MaxValueParts == 1

\* Number of pieces a text handed to Parser.parse is made of.
MaxParserParts == 4

\* Number of characters that follow the fixed beginning of a tag form.
MaxFormLen == 4

\* Characters of the markup inputs: the characters that open, close and
\* end a tag, whitespace, and two letters (one tag name that the
\* allow-lists below allow and one that they do not).
Alphabet == {"<", ">", "/", " ", "b", "s"}

\* ------------------------------------------------------------------------
\* Strings
\* ------------------------------------------------------------------------

RECURSIVE Flatten(_)
\* Concatenation of a sequence of strings (Array.prototype.join("")).
Flatten(ss) == IF ss = <<>> THEN <<>> ELSE Head(ss) \o Flatten(Tail(ss))

\* buffer.slice(start, end) for 0 <= start <= end <= length.
Slice(buffer, start, end) == SubSeq(buffer, start + 1, end)

LowerLetters == <<"a", "b", "c", "d", "e", "f", "g", "h", "i", "j", "k", "l", "m",
                  "n", "o", "p", "q", "r", "s", "t", "u", "v", "w", "x", "y", "z">>
UpperLetters == <<"A", "B", "C", "D", "E", "F", "G", "H", "I", "J", "K", "L", "M",
                  "N", "O", "P", "Q", "R", "S", "T", "U", "V", "W", "X", "Y", "Z">>

Range(f) == {f[i] : i \in DOMAIN f}

AsciiLower == Range(LowerLetters)
AsciiUpper == Range(UpperLetters)

\* The lower-case letter of each upper-case letter.
UpperToLower ==
    [c \in AsciiUpper |->
        LowerLetters[CHOOSE i \in DOMAIN UpperLetters : UpperLetters[i] = c]]

\* String.prototype.toLowerCase on one character.
LowerChar(c) == IF c \in AsciiUpper THEN UpperToLower[c] ELSE c

\* String.prototype.toLowerCase.
toLowerCase(str) == [i \in DOMAIN str |-> LowerChar(str[i])]

DecimalDigits == <<"0", "1", "2", "3", "4", "5", "6", "7", "8", "9">>

\* [0-9] and [0-9a-fA-F].
DecimalClass == Range(DecimalDigits)
HexClass == DecimalClass \cup {"a", "b", "c", "d", "e", "f"}
                         \cup {"A", "B", "C", "D", "E", "F"}

\* The value of one digit in parseInt.
DigitValue(c) ==
    IF c \in DecimalClass
    THEN (CHOOSE i \in DOMAIN DecimalDigits : DecimalDigits[i] = c) - 1
    ELSE (CHOOSE i \in 1..6 : LowerLetters[i] = LowerChar(c)) + 9

RECURSIVE parseIntFrom(_, _, _)
\* parseInt(digits, radix), continued from acc; every value above U+10FFFF
\* is kept as 1114112, which fromCodePoint rejects like the value itself.
parseIntFrom(digits, radix, acc) ==
    IF digits = <<>> THEN acc
    ELSE LET v == acc * radix + DigitValue(Head(digits))
         IN  parseIntFrom(Tail(digits), radix, IF v > 1114111 THEN 1114112 ELSE v)

parseInt(digits, radix) == parseIntFrom(digits, radix, 0)

\* ------------------------------------------------------------------------
\* Tokenizer: character classes
\* ------------------------------------------------------------------------

Lt == "<"
Gt == ">"
Slash == "/"
Eq == "="
DoubleQuote == "\""
SingleQuote == "'"

Whitespace == {" ", "\n", "\t", "\f", "\r"}

isWhitespace(c) == c \in Whitespace

isEndOfTagSection(c) == c = Slash \/ c = Gt \/ isWhitespace(c)

isASCIIAlpha(c) == c \in AsciiLower \/ c \in AsciiUpper

\* ------------------------------------------------------------------------
\* tokenizeHtml: the callbacks.  A record t holds the Tokenizer's fields
\* (state, buffer, sectionStart, index, tagStart) together with the
\* variables the callbacks of tokenizeHtml close over (tokens, tagName,
\* tagAttributes, attribName, attribValue, endIndex), and two records of
\* the run: events, the callbacks the Tokenizer has invoked, in order, each
\* the callback's name (onattribend with its quote type), and chain, the
\* state handlers that have processed the current character.
\* ------------------------------------------------------------------------

\* this.cbs.<event>(...): the Tokenizer invokes a callback.
invoke(t, event) == [t EXCEPT !.events = Append(@, event)]

\* this.state<Name>(c): a state handler is called with the current character.
enter(t, handler) == [t EXCEPT !.chain = Append(@, handler)]

ontext(t, start, end) ==
    [invoke(t, <<"ontext">>) EXCEPT !.tokens = Append(@, [tokenType |-> "text", start |-> start, end |-> end]),
              !.endIndex = end]

onopentagname(t, start, end) ==
    [invoke(t, <<"onopentagname">>) EXCEPT !.tagName = Slice(t.buffer, start, end)]

\* onopentagend with the token ending at the ">" instead of after it.
onopentagend_endAtGt(t, end, tagStart, tagEnd) ==
    [invoke(t, <<"onopentagend">>) EXCEPT !.tokens = Append(@, [tokenType |-> "openTag", start |-> tagStart,
                                    end |-> tagEnd, tagName |-> t.tagName,
                                    attributes |-> t.tagAttributes]),
              !.endIndex = tagEnd,
              !.tagName = <<>>,
              !.tagAttributes = <<>>]

\* onopentagend leaving the attributes in tagAttributes.
onopentagend_attributesKept(t, end, tagStart, tagEnd) ==
    [invoke(t, <<"onopentagend">>) EXCEPT
              !.tokens = Append(@, [tokenType |-> "openTag", start |-> tagStart,
                                    end |-> tagEnd + 1, tagName |-> t.tagName,
                                    attributes |-> t.tagAttributes]),
              !.endIndex = tagEnd + 1,
              !.tagName = <<>>]

onopentagend(t, end, tagStart, tagEnd) ==
    [invoke(t, <<"onopentagend">>) EXCEPT !.tokens = Append(@, [tokenType |-> "openTag", start |-> tagStart,
                                    end |-> tagEnd + 1, tagName |-> t.tagName,
                                    attributes |-> t.tagAttributes]),
              !.endIndex = tagEnd + 1,
              !.tagName = <<>>,
              !.tagAttributes = <<>>]

onselfclosingtag(t, end, tagStart, tagEnd) ==
    [invoke(t, <<"onselfclosingtag">>) EXCEPT !.tokens = Append(@, [tokenType |-> "selfClosingTag", start |-> tagStart,
                                    end |-> tagEnd + 1, tagName |-> t.tagName,
                                    attributes |-> t.tagAttributes]),
              !.endIndex = tagEnd + 1,
              !.tagName = <<>>,
              !.tagAttributes = <<>>]

onclosetag(t, start, end, tagStart, tagEnd) ==
    [invoke(t, <<"onclosetag">>) EXCEPT !.tagName = Slice(t.buffer, start, end),
              !.tokens = Append(@, [tokenType |-> "closeTag", start |-> tagStart,
                                    end |-> tagEnd + 1,
                                    tagName |-> Slice(t.buffer, start, end)]),
              !.endIndex = tagEnd + 1]

onattribname(t, start, end) ==
    [invoke(t, <<"onattribname">>) EXCEPT !.attribName = Slice(t.buffer, start, end),
              !.attribValue = <<>>]

onattribdata(t, start, end) ==
    [invoke(t, <<"onattribdata">>) EXCEPT !.attribValue = @ \o Slice(t.buffer, start, end)]

onattribend(t, quote, end) ==
    [invoke(t, <<"onattribend", quote>>) EXCEPT !.tagAttributes = Append(@, [name |-> t.attribName,
                                           value |-> t.attribValue,
                                           quoteType |-> quote]),
              !.attribName = <<>>,
              !.attribValue = <<>>]

\* onend calls callbacks.ontext itself: that call is none of the Tokenizer's.
onend(t) ==
    LET t1 == invoke(t, <<"onend">>)
    IN IF t1.endIndex < Len(t1.buffer)
       THEN [ontext(t1, t1.endIndex, Len(t1.buffer)) EXCEPT !.events = t1.events]
       ELSE t1

\* ------------------------------------------------------------------------
\* Tokenizer: the state handlers.  A handler that reconsumes the character
\* calls the handler of the new state, as the source does.
\* ------------------------------------------------------------------------

\* stateText without the test that the text before "<" is not empty.
stateText_emitsEmpty(t0, c) ==
    LET t == enter(t0, "stateText") IN
    IF c = Lt
    THEN [ontext(t, t.sectionStart, t.index)
             EXCEPT !.state = "BeforeTagName",
                    !.sectionStart = t.index,
                    !.tagStart = t.index]
    ELSE t

stateText(t0, c) ==
    LET t == enter(t0, "stateText") IN
    IF c = Lt
    THEN LET t1 == IF t.index > t.sectionStart
                   THEN ontext(t, t.sectionStart, t.index)
                   ELSE t
         IN [t1 EXCEPT !.state = "BeforeTagName",
                       !.sectionStart = t.index,
                       !.tagStart = t.index]
    ELSE t

\* stateBeforeTagName going back to Text without handing the character to
\* stateText.
stateBeforeTagName_notReconsumed(t0, c) ==
    LET t == enter(t0, "stateBeforeTagName") IN
    IF isASCIIAlpha(c)
    THEN [t EXCEPT !.sectionStart = t.index, !.state = "InTagName"]
    ELSE IF c = Slash
    THEN [t EXCEPT !.state = "BeforeClosingTagName"]
    ELSE [t EXCEPT !.state = "Text"]

stateBeforeTagName(t0, c) ==
    LET t == enter(t0, "stateBeforeTagName") IN
    IF isASCIIAlpha(c)
    THEN [t EXCEPT !.sectionStart = t.index, !.state = "InTagName"]
    ELSE IF c = Slash
    THEN [t EXCEPT !.state = "BeforeClosingTagName"]
    ELSE stateText([t EXCEPT !.state = "Text"], c)

stateBeforeAttributeName(t0, c) ==
    LET t == enter(t0, "stateBeforeAttributeName") IN
    IF c = Gt
    THEN [onopentagend(t, t.index, t.tagStart, t.index)
             EXCEPT !.state = "Text", !.sectionStart = t.index + 1]
    ELSE IF c = Slash
    THEN [t EXCEPT !.state = "InSelfClosingTag"]
    ELSE IF ~isWhitespace(c)
    THEN [t EXCEPT !.state = "InAttributeName", !.sectionStart = t.index]
    ELSE t

\* stateInTagName stepping index back for the loop to read the character
\* again in the new state, instead of calling the state's handler.
stateInTagName_steppingBack(t0, c) ==
    LET t == enter(t0, "stateInTagName") IN
    IF isEndOfTagSection(c)
    THEN [onopentagname(t, t.sectionStart, t.index)
             EXCEPT !.sectionStart = -1, !.state = "BeforeAttributeName",
                    !.index = @ - 1]
    ELSE t

stateInTagName(t0, c) ==
    LET t == enter(t0, "stateInTagName") IN
    IF isEndOfTagSection(c)
    THEN stateBeforeAttributeName(
             [onopentagname(t, t.sectionStart, t.index)
                 EXCEPT !.sectionStart = -1, !.state = "BeforeAttributeName"], c)
    ELSE t

\* stateBeforeClosingTagName starting a new section after the ">".
stateBeforeClosingTagName_sectionRestarted(t0, c) ==
    LET t == enter(t0, "stateBeforeClosingTagName") IN
    IF isWhitespace(c)
    THEN t
    ELSE IF c = Gt
    THEN [t EXCEPT !.state = "Text", !.sectionStart = t.index + 1]
    ELSE IF isASCIIAlpha(c)
    THEN [t EXCEPT !.state = "InClosingTagName", !.sectionStart = t.index]
    ELSE t

stateBeforeClosingTagName(t0, c) ==
    LET t == enter(t0, "stateBeforeClosingTagName") IN
    IF isWhitespace(c)
    THEN t
    ELSE IF c = Gt
    THEN [t EXCEPT !.state = "Text"]
    ELSE IF isASCIIAlpha(c)
    THEN [t EXCEPT !.state = "InClosingTagName", !.sectionStart = t.index]
    ELSE t

stateAfterClosingTagName(t0, c) ==
    LET t == enter(t0, "stateAfterClosingTagName") IN
    IF c = Gt
    THEN [t EXCEPT !.state = "Text", !.sectionStart = t.index + 1]
    ELSE t

stateInClosingTagName(t0, c) ==
    LET t == enter(t0, "stateInClosingTagName") IN
    IF c = Gt \/ isWhitespace(c)
    THEN stateAfterClosingTagName(
             [onclosetag(t, t.sectionStart, t.index, t.tagStart, t.index)
                 EXCEPT !.sectionStart = -1, !.state = "AfterClosingTagName"], c)
    ELSE t

\* stateInSelfClosingTag leaving the state at whitespace as well.
stateInSelfClosingTag_leftAtWhitespace(t0, c) ==
    LET t == enter(t0, "stateInSelfClosingTag") IN
    IF c = Gt
    THEN [onselfclosingtag(t, t.index, t.tagStart, t.index)
             EXCEPT !.state = "Text", !.sectionStart = t.index + 1]
    ELSE stateBeforeAttributeName([t EXCEPT !.state = "BeforeAttributeName"], c)

stateInSelfClosingTag(t0, c) ==
    LET t == enter(t0, "stateInSelfClosingTag") IN
    IF c = Gt
    THEN [onselfclosingtag(t, t.index, t.tagStart, t.index)
             EXCEPT !.state = "Text", !.sectionStart = t.index + 1]
    ELSE IF ~isWhitespace(c)
    THEN stateBeforeAttributeName([t EXCEPT !.state = "BeforeAttributeName"], c)
    ELSE t

\* stateAfterAttributeName starting the next name without ending the
\* attribute.
stateAfterAttributeName_attributeNotEnded(t0, c) ==
    LET t == enter(t0, "stateAfterAttributeName") IN
    IF c = Eq
    THEN [t EXCEPT !.state = "BeforeAttributeValue"]
    ELSE IF c = Slash \/ c = Gt
    THEN stateBeforeAttributeName(
             [onattribend(t, "NoValue", t.sectionStart)
                 EXCEPT !.sectionStart = -1, !.state = "BeforeAttributeName"], c)
    ELSE IF ~isWhitespace(c)
    THEN [t EXCEPT !.state = "InAttributeName", !.sectionStart = t.index]
    ELSE t

stateAfterAttributeName(t0, c) ==
    LET t == enter(t0, "stateAfterAttributeName") IN
    IF c = Eq
    THEN [t EXCEPT !.state = "BeforeAttributeValue"]
    ELSE IF c = Slash \/ c = Gt
    THEN stateBeforeAttributeName(
             [onattribend(t, "NoValue", t.sectionStart)
                 EXCEPT !.sectionStart = -1, !.state = "BeforeAttributeName"], c)
    ELSE IF ~isWhitespace(c)
    THEN [onattribend(t, "NoValue", t.sectionStart)
             EXCEPT !.state = "InAttributeName", !.sectionStart = t.index]
    ELSE t

stateInAttributeName(t0, c) ==
    LET t == enter(t0, "stateInAttributeName") IN
    IF c = Eq \/ isEndOfTagSection(c)
    THEN stateAfterAttributeName(
             [onattribname(t, t.sectionStart, t.index)
                 EXCEPT !.sectionStart = t.index, !.state = "AfterAttributeName"], c)
    ELSE t

\* handleInAttributeValue without onattribdata for an empty value.
handleInAttributeValue_dataUnlessEmpty(t, c, quote) ==
    IF c = quote
    THEN [onattribend([(IF t.index > t.sectionStart
                        THEN onattribdata(t, t.sectionStart, t.index)
                        ELSE t) EXCEPT !.sectionStart = -1],
                      IF quote = DoubleQuote THEN "Double" ELSE "Single",
                      t.index + 1)
             EXCEPT !.state = "BeforeAttributeName"]
    ELSE t

\* handleInAttributeValue ending the value at ">" as well.
handleInAttributeValue_endsAtGt(t, c, quote) ==
    IF c = quote \/ c = Gt
    THEN [onattribend([onattribdata(t, t.sectionStart, t.index) EXCEPT !.sectionStart = -1],
                      IF quote = DoubleQuote THEN "Double" ELSE "Single",
                      t.index + 1)
             EXCEPT !.state = "BeforeAttributeName"]
    ELSE t

handleInAttributeValue(t, c, quote) ==
    IF c = quote
    THEN [onattribend([onattribdata(t, t.sectionStart, t.index) EXCEPT !.sectionStart = -1],
                      IF quote = DoubleQuote THEN "Double" ELSE "Single",
                      t.index + 1)
             EXCEPT !.state = "BeforeAttributeName"]
    ELSE t

stateInAttributeValueDoubleQuotes(t, c) ==
    handleInAttributeValue(enter(t, "stateInAttributeValueDoubleQuotes"), c, DoubleQuote)

stateInAttributeValueSingleQuotes(t, c) ==
    handleInAttributeValue(enter(t, "stateInAttributeValueSingleQuotes"), c, SingleQuote)

\* stateInAttributeValueNoQuotes ending the value at "/" as well.
stateInAttributeValueNoQuotes_endsAtSlash(t0, c) ==
    LET t == enter(t0, "stateInAttributeValueNoQuotes") IN
    IF isWhitespace(c) \/ c = Gt \/ c = Slash
    THEN stateBeforeAttributeName(
             [onattribend([onattribdata(t, t.sectionStart, t.index) EXCEPT !.sectionStart = -1],
                          "Unquoted", t.index)
                 EXCEPT !.state = "BeforeAttributeName"], c)
    ELSE t

stateInAttributeValueNoQuotes(t0, c) ==
    LET t == enter(t0, "stateInAttributeValueNoQuotes") IN
    IF isWhitespace(c) \/ c = Gt
    THEN stateBeforeAttributeName(
             [onattribend([onattribdata(t, t.sectionStart, t.index) EXCEPT !.sectionStart = -1],
                          "Unquoted", t.index)
                 EXCEPT !.state = "BeforeAttributeName"], c)
    ELSE t

\* stateBeforeAttributeValue ending a valueless attribute at ">".
stateBeforeAttributeValue_noValueAtGt(t0, c) ==
    LET t == enter(t0, "stateBeforeAttributeValue") IN
    IF c = DoubleQuote
    THEN [t EXCEPT !.state = "InAttributeValueDq", !.sectionStart = t.index + 1]
    ELSE IF c = SingleQuote
    THEN [t EXCEPT !.state = "InAttributeValueSq", !.sectionStart = t.index + 1]
    ELSE IF c = Gt
    THEN stateBeforeAttributeName(
             [onattribend(t, "NoValue", t.index)
                 EXCEPT !.sectionStart = -1, !.state = "BeforeAttributeName"], c)
    ELSE IF ~isWhitespace(c)
    THEN stateInAttributeValueNoQuotes(
             [t EXCEPT !.sectionStart = t.index, !.state = "InAttributeValueNq"], c)
    ELSE t

stateBeforeAttributeValue(t0, c) ==
    LET t == enter(t0, "stateBeforeAttributeValue") IN
    IF c = DoubleQuote
    THEN [t EXCEPT !.state = "InAttributeValueDq", !.sectionStart = t.index + 1]
    ELSE IF c = SingleQuote
    THEN [t EXCEPT !.state = "InAttributeValueSq", !.sectionStart = t.index + 1]
    ELSE IF ~isWhitespace(c)
    THEN stateInAttributeValueNoQuotes(
             [t EXCEPT !.sectionStart = t.index, !.state = "InAttributeValueNq"], c)
    ELSE t

\* finish without the onend that follows an unfinished tag.
finish_endSkipped(t) ==
    IF t.sectionStart >= Len(t.buffer)
    THEN onend(t)
    ELSE IF t.state = "Text"
    THEN onend(ontext(t, t.sectionStart, Len(t.buffer)))
    ELSE t

\* Tokenizer.finish, called by parse after the loop.
finish(t) ==
    IF t.sectionStart >= Len(t.buffer)
    THEN onend(t)
    ELSE IF t.state = "Text"
    THEN onend(ontext(t, t.sectionStart, Len(t.buffer)))
    ELSE onend(t)

\* One iteration of the loop of Tokenizer.parse: dispatch on the state,
\* then index++.
parseStep(t0) ==
    LET t == [t0 EXCEPT !.chain = <<>>]
        c == t.buffer[t.index + 1]
        t1 == CASE t.state = "Text" -> stateText(t, c)
                [] t.state = "BeforeTagName" -> stateBeforeTagName(t, c)
                [] t.state = "InTagName" -> stateInTagName(t, c)
                [] t.state = "BeforeClosingTagName" -> stateBeforeClosingTagName(t, c)
                [] t.state = "InClosingTagName" -> stateInClosingTagName(t, c)
                [] t.state = "AfterClosingTagName" -> stateAfterClosingTagName(t, c)
                [] t.state = "BeforeAttributeName" -> stateBeforeAttributeName(t, c)
                [] t.state = "InAttributeName" -> stateInAttributeName(t, c)
                [] t.state = "AfterAttributeName" -> stateAfterAttributeName(t, c)
                [] t.state = "BeforeAttributeValue" -> stateBeforeAttributeValue(t, c)
                [] t.state = "InAttributeValueDq" -> stateInAttributeValueDoubleQuotes(t, c)
                [] t.state = "InAttributeValueSq" -> stateInAttributeValueSingleQuotes(t, c)
                [] t.state = "InAttributeValueNq" -> stateInAttributeValueNoQuotes(t, c)
                [] t.state = "InSelfClosingTag" -> stateInSelfClosingTag(t, c)
    IN [t1 EXCEPT !.index = @ + 1]

RECURSIVE parseLoop(_)
\* The while loop of Tokenizer.parse.
parseLoop(t) == IF t.index < Len(t.buffer) THEN parseLoop(parseStep(t)) ELSE t

\* The variables a call of tokenizeHtml declares and the Tokenizer that
\* `new Tokenizer(callbacks)` constructs.
newTokenizer ==
    [state |-> "Text", buffer |-> <<>>, sectionStart |-> 0, index |-> 0, tagStart |-> 0,
     tokens |-> <<>>, tagName |-> <<>>, tagAttributes |-> <<>>,
     attribName |-> <<>>, attribValue |-> <<>>, endIndex |-> 0,
     events |-> <<>>, chain |-> <<>>]

\* The assignments that open parse(chunk), made to the Tokenizer of the
\* call before and the variables of that call instead of the new ones.
parseStart_onKept(t, chunk) ==
    [tokenizer EXCEPT !.buffer = chunk, !.index = 0, !.sectionStart = 0, !.state = "Text"]

\* The assignments that open Tokenizer.parse(chunk).
parseStart(t, chunk) ==
    [t EXCEPT !.buffer = chunk, !.index = 0, !.sectionStart = 0, !.state = "Text"]

\* Tokenizer.parse(chunk) run to completion on the Tokenizer t.
parse(t, chunk) == finish(parseLoop(parseStart(t, chunk)))

\* SanitizeParser.tokenizeHtml up to its return: the Tokenizer and the
\* variables of the call after tokenizer.parse(htmlText).
tokenizeHtml_run(text) == parse(newTokenizer, text)

\* SanitizeParser.tokenizeHtml.
tokenizeHtml(text) == tokenizeHtml_run(text).tokens

\* ------------------------------------------------------------------------
\* SanitizeParser: escaping and the allow-list
\* ------------------------------------------------------------------------

\* HTML_ESCAPE_MAP applied to one character matched by HTML_ESCAPE_REGEX.
HTML_ESCAPE_MAP(c) ==
    CASE c = "&" -> <<"&", "a", "m", "p", ";">>
      [] c = "<" -> <<"&", "l", "t", ";">>
      [] c = ">" -> <<"&", "g", "t", ";">>
      [] c = "\"" -> <<"&", "q", "u", "o", "t", ";">>
      [] c = "'" -> <<"&", "#", "3", "9", ";">>
      [] OTHER -> <<c>>

\* escapeText: str.replace(HTML_ESCAPE_REGEX, ...).
escapeText(str) == Flatten([i \in DOMAIN str |-> HTML_ESCAPE_MAP(str[i])])

\* The onAttribute callback of the model's allow-list; it returns "true" or
\* "false", or throws ("throw"):
\*   strict  (name, value) => {
\*             if (name.includes("<")) throw new Error(...);
\*             return name === "b" && value !== "s";
\*           }
CallOnAttribute(callback, name, value) ==
    CASE callback = "strict" ->
             IF \E i \in DOMAIN name : name[i] = "<" THEN "throw"
             ELSE IF name = <<"b">> /\ value # <<"s">> THEN "true"
             ELSE "false"

\* An AllowedTag; onAttribute is "none" when the rule defines no callback,
\* defaultAttributes is the sequence of the <<name, value>> pairs of the
\* object literal, in the order in which they are written (the names are
\* distinct).
AllowedTag(tagName, onAttribute, defaultAttributes) ==
    [tagName |-> tagName, onAttribute |-> onAttribute,
     defaultAttributes |-> defaultAttributes]

\* The SanitizeOptions the parser is constructed with: none, a rule
\* without callback, a rule (spelled in upper case) with a callback and
\* default attributes  { s: "\"", b: "s" },  and a rule without callback
\* with default attributes  { s: "s", 1: "b" }.
NoOptions == [allowedTags |-> <<>>]
PlainOptions == [allowedTags |-> <<AllowedTag(<<"b">>, "none", <<>>)>>]
StrictOptions ==
    [allowedTags |->
        <<AllowedTag(<<"B">>, "strict",
                     << <<(<<"s">>), (<<"\"">>)>>, <<(<<"b">>), (<<"s">>)>> >>)>>]

NumberedOptions ==
    [allowedTags |->
        <<AllowedTag(<<"b">>, "none",
                     << <<(<<"s">>), (<<"s">>)>>, <<(<<"1">>), (<<"b">>)>> >>)>>]

OptionsSet == {NoOptions, PlainOptions, StrictOptions, NumberedOptions}

\* buildAllowedTagsMap: map.set(tag.tagName.toLowerCase(), tag) for each
\* rule in order, a later rule replacing an earlier one of the same key.
buildAllowedTagsMap(opts) ==
    LET rules == opts.allowedTags
        keys == {toLowerCase(rules[i].tagName) : i \in DOMAIN rules}
        last(k) == CHOOSE i \in DOMAIN rules :
                       /\ toLowerCase(rules[i].tagName) = k
                       /\ \A j \in DOMAIN rules :
                              toLowerCase(rules[j].tagName) = k => j <= i
    IN [k \in keys |-> rules[last(k)]]

\* The lookup with the tag name as written, not lower-cased.
isAllowedTag_nameAsWritten(map, tagName) == tagName \in DOMAIN map

\* findAllowedTag(tagName) is defined (not undefined).
isAllowedTag(map, tagName) == toLowerCase(tagName) \in DOMAIN map

\* findAllowedTag: allowedTagsMap.get(tagName.toLowerCase()).
findAllowedTag(map, tagName) == map[toLowerCase(tagName)]

\* The arguments of onAttribute with the name as written, not lower-cased.
onAttributeArgs_nameAsWritten(attr) == <<attr.name, attr.value>>

\* The arguments isAttributeAllowed passes to onAttribute.
onAttributeArgs(attr) == <<toLowerCase(attr.name), attr.value>>

\* isAttributeAllowed: "true", "false", or "throw" when the callback throws.
isAttributeAllowed(attr, allowedTag) ==
    IF allowedTag.onAttribute # "none"
    THEN CallOnAttribute(allowedTag.onAttribute,
                         onAttributeArgs(attr)[1], onAttributeArgs(attr)[2])
    ELSE "true"

\* An attribute appended with its value as written, not escaped.
renderAttribute_rawValue(attr) ==
    IF attr.quoteType = "NoValue"
    THEN <<" ">> \o attr.name
    ELSE <<" ">> \o attr.name \o <<"=", "\"">> \o attr.value \o <<"\"">>

\* One attribute as processAttributes appends it.
renderAttribute(attr) ==
    IF attr.quoteType = "NoValue"
    THEN <<" ">> \o attr.name
    ELSE <<" ">> \o attr.name \o <<"=", "\"">> \o escapeText(attr.value) \o <<"\"">>

\* processAttributes (when no callback throws).
processAttributes(attributes, allowedTag) ==
    Flatten([i \in DOMAIN attributes |->
                IF isAttributeAllowed(attributes[i], allowedTag) = "true"
                THEN renderAttribute(attributes[i])
                ELSE <<>>])

\* A property name that is an integer index ("0", "1", "10", ...).
IsIntegerKey(name) ==
    /\ name # <<>>
    /\ \A i \in DOMAIN name : name[i] \in DecimalClass
    /\ (name[1] = "0" => Len(name) = 1)

\* Object.entries(object): the properties whose names are integer indices
\* first, in ascending order, then the others in the order in which they
\* were written.
ObjectEntries(object) ==
    LET indices == {i \in DOMAIN object : IsIntegerKey(object[i][1])}
        ascending ==
            CHOOSE f \in [1..Cardinality(indices) -> indices] :
                \A i, j \in DOMAIN f :
                    i < j => parseInt(object[f[i]][1], 10) < parseInt(object[f[j]][1], 10)
    IN  [i \in DOMAIN ascending |-> object[ascending[i]]]
        \o SelectSeq(object, LAMBDA entry : ~IsIntegerKey(entry[1]))

\* addDefaultAttributes looking only at the source attributes that were
\* kept.
addDefaultAttributes_keptOnly(existingAttributes, allowedTag) ==
    LET defaults == ObjectEntries(allowedTag.defaultAttributes)
    IN Flatten([i \in DOMAIN defaults |->
                   IF ~\E k \in DOMAIN existingAttributes :
                          /\ existingAttributes[k].name = defaults[i][1]
                          /\ isAttributeAllowed(existingAttributes[k], allowedTag) = "true"
                   THEN <<" ">> \o defaults[i][1] \o <<"=", "\"">>
                            \o escapeText(defaults[i][2]) \o <<"\"">>
                   ELSE <<>>])

\* addDefaultAttributes.
addDefaultAttributes(existingAttributes, allowedTag) ==
    LET defaults == ObjectEntries(allowedTag.defaultAttributes)
    IN Flatten([i \in DOMAIN defaults |->
                   IF ~\E k \in DOMAIN existingAttributes :
                          existingAttributes[k].name = defaults[i][1]
                   THEN <<" ">> \o defaults[i][1] \o <<"=", "\"">>
                            \o escapeText(defaults[i][2]) \o <<"\"">>
                   ELSE <<>>])

\* buildAllowedTag with the default attributes before the source
\* attributes.
buildAllowedTag_defaultsFirst(token, allowedTag) ==
    <<"<">> \o token.tagName
        \o addDefaultAttributes(token.attributes, allowedTag)
        \o processAttributes(token.attributes, allowedTag)
        \o (IF token.tokenType = "selfClosingTag" THEN <<" ", "/", ">">> ELSE <<">">>)

\* buildAllowedTag.
buildAllowedTag(token, allowedTag) ==
    <<"<">> \o token.tagName
        \o processAttributes(token.attributes, allowedTag)
        \o addDefaultAttributes(token.attributes, allowedTag)
        \o (IF token.tokenType = "selfClosingTag" THEN <<" ", "/", ">">> ELSE <<">">>)

processTextToken(token, buffer) == escapeText(Slice(buffer, token.start, token.end))

processTagToken(map, token, buffer) ==
    IF isAllowedTag(map, token.tagName)
    THEN buildAllowedTag(token, findAllowedTag(map, token.tagName))
    ELSE escapeText(Slice(buffer, token.start, token.end))

processCloseTagToken(map, token, buffer) ==
    IF isAllowedTag(map, token.tagName)
    THEN <<"<", "/">> \o token.tagName \o <<">">>
    ELSE escapeText(Slice(buffer, token.start, token.end))

\* The array `result` of processTokens before result.join("").
processTokens(map, tokens, buffer) ==
    [i \in DOMAIN tokens |->
        CASE tokens[i].tokenType = "text" -> processTextToken(tokens[i], buffer)
          [] tokens[i].tokenType \in {"openTag", "selfClosingTag"} ->
                 processTagToken(map, tokens[i], buffer)
          [] tokens[i].tokenType = "closeTag" -> processCloseTagToken(map, tokens[i], buffer)]

\* The invocations of onAttribute that processTokens makes, in order: one
\* for each attribute of each open tag whose rule defines onAttribute.
onAttributeCalls(map, tokens) ==
    Flatten([i \in DOMAIN tokens |->
        IF /\ tokens[i].tokenType \in {"openTag", "selfClosingTag"}
           /\ isAllowedTag(map, tokens[i].tagName)
           /\ findAllowedTag(map, tokens[i].tagName).onAttribute # "none"
        THEN [k \in DOMAIN tokens[i].attributes |->
                 [args |-> onAttributeArgs(tokens[i].attributes[k]),
                  returned |-> isAttributeAllowed(tokens[i].attributes[k],
                                                  findAllowedTag(map, tokens[i].tagName))]]
        ELSE <<>>])

\* The invocations up to and including the first one that throws.
RECURSIVE upToThrow(_)
upToThrow(cs) ==
    IF cs = <<>> THEN <<>>
    ELSE IF Head(cs).returned = "throw" THEN <<Head(cs)>>
    ELSE <<Head(cs)>> \o upToThrow(Tail(cs))

\* An onAttribute invocation among cs threw.
threw(cs) == cs # <<>> /\ cs[Len(cs)].returned = "throw"

\* sanitize without its try/catch: an exception thrown by onAttribute
\* leaves the call.
sanitize_noCatch(map, htmlText) ==
    IF Len(htmlText) = 0
    THEN [tokenizer |-> newTokenizer, tokens |-> <<>>, calls |-> <<>>, caught |-> FALSE,
          result |-> <<>>, html |-> <<>>, outcome |-> "returned", warnings |-> 0]
    ELSE LET run == tokenizeHtml_run(htmlText)
             toks == run.tokens
             cs == upToThrow(onAttributeCalls(map, toks))
         IN IF threw(cs)
            THEN [tokenizer |-> run, tokens |-> toks, calls |-> cs, caught |-> FALSE, result |-> <<>>,
                  html |-> <<>>, outcome |-> "threw", warnings |-> 0]
            ELSE LET pieces == processTokens(map, toks, htmlText)
                 IN [tokenizer |-> run, tokens |-> toks, calls |-> cs, caught |-> FALSE, result |-> pieces,
                     html |-> Flatten(pieces), outcome |-> "returned", warnings |-> 0]

\* SanitizeParser.sanitize(htmlText) for a string htmlText: the early return
\* for the empty string, tokenizeHtml, processTokens, and the catch block,
\* which runs when an onAttribute callback throws.  The record holds what
\* the call computed and how it ended: outcome is "returned" when sanitize
\* returned { html } and "threw" when an exception left it; warnings is
\* the number of its console.warn calls.
sanitize(map, htmlText) ==
    IF Len(htmlText) = 0
    THEN [tokenizer |-> newTokenizer, tokens |-> <<>>, calls |-> <<>>, caught |-> FALSE,
          result |-> <<>>, html |-> <<>>, outcome |-> "returned", warnings |-> 0]
    ELSE LET run == tokenizeHtml_run(htmlText)
             toks == run.tokens
             cs == upToThrow(onAttributeCalls(map, toks))
         IN IF threw(cs)
            THEN [tokenizer |-> run, tokens |-> toks, calls |-> cs, caught |-> TRUE, result |-> <<>>,
                  html |-> escapeText(htmlText), outcome |-> "returned", warnings |-> 1]
            ELSE LET pieces == processTokens(map, toks, htmlText)
                 IN [tokenizer |-> run, tokens |-> toks, calls |-> cs, caught |-> FALSE, result |-> pieces,
                     html |-> Flatten(pieces), outcome |-> "returned", warnings |-> 0]

\* A JavaScript value handed to sanitize: its typeof, whether String(value)
\* returns (it throws a TypeError for an object without a usable toString,
\* such as Object.create(null)), and the string it returns.
Value(type, converts, string) == [type |-> type, converts |-> converts, string |-> string]

StringValue(string) == Value("string", TRUE, string)

\* SanitizeParser.sanitize(htmlText) for any value: a value that is no
\* string is logged and replaced by String(htmlText).  When String throws,
\* the catch block logs again and calls String(htmlText) once more, which
\* throws out of sanitize.
sanitizeValue(map, v) ==
    IF v.type = "string"
    THEN sanitize(map, v.string)
    ELSE IF v.converts
    THEN [sanitize(map, v.string) EXCEPT !.warnings = @ + 1]
    ELSE [tokenizer |-> newTokenizer, tokens |-> <<>>, calls |-> <<>>, caught |-> TRUE,
          result |-> <<>>, html |-> <<>>, outcome |-> "threw", warnings |-> 2]

\* ------------------------------------------------------------------------
\* sanitizeHref and decodeEntities
\* ------------------------------------------------------------------------

\* The characters U+0000..U+001F; a character without a notation is named
\* by its code point, here and below.
ControlCharacters ==
    <<"U+0000", "U+0001", "U+0002", "U+0003", "U+0004", "U+0005", "U+0006",
      "U+0007", "U+0008", "\t", "\n", "U+000B", "\f", "\r", "U+000E", "U+000F",
      "U+0010", "U+0011", "U+0012", "U+0013", "U+0014", "U+0015", "U+0016",
      "U+0017", "U+0018", "U+0019", "U+001A", "U+001B", "U+001C", "U+001D",
      "U+001E", "U+001F">>

\* The characters U+0000..U+007F in the order of their code points.
Ascii ==
    ControlCharacters
    \o <<" ", "!", "\"", "#", "$", "%", "&", "'", "(", ")", "*", "+", ",", "-",
         ".", "/">>
    \o DecimalDigits
    \o <<":", ";", "<", "=", ">", "?", "@">>
    \o UpperLetters
    \o <<"[", "\\", "]", "^", "_", "U+0060">>
    \o LowerLetters
    \o <<"{", "|", "}", "~", "U+007F">>

\* String.fromCodePoint(n): a RangeError above U+10FFFF (written as the
\* character "RangeError", which no pattern below matches); the characters
\* above U+007F are one character, which is no control character, no
\* scheme character and no space.
fromCodePoint(n) ==
    IF n > 1114111 THEN "RangeError"
    ELSE IF n < 128 THEN Ascii[n + 1]
    ELSE "U+0080.."

RECURSIVE RunEnd(_, _, _)
\* The index after the longest run of characters of class that starts at
\* index i of s (the greedy + and * of the patterns).
RunEnd(s, i, class) ==
    IF i <= Len(s) /\ s[i] \in class THEN RunEnd(s, i + 1, class) ELSE i

\* The literal lit is in s at index i.
HasAt(s, i, lit) ==
    /\ i + Len(lit) - 1 <= Len(s)
    /\ SubSeq(s, i, i + Len(lit) - 1) = lit

RECURSIVE replaceReference(_, _, _, _, _)
\* s.replace(/<prefix>(<class>+);?/g, (_, d) => fromCodePoint(parseInt(d, radix)))
\* from index i on.
replaceReference(s, i, prefix, class, radix) ==
    IF i > Len(s) THEN <<>>
    ELSE LET from == i + Len(prefix)
             to == RunEnd(s, from, class)
             next == IF to <= Len(s) /\ s[to] = ";" THEN to + 1 ELSE to
         IN  IF HasAt(s, i, prefix) /\ to > from
             THEN <<fromCodePoint(parseInt(SubSeq(s, from, to - 1), radix))>>
                  \o replaceReference(s, next, prefix, class, radix)
             ELSE <<s[i]>> \o replaceReference(s, i + 1, prefix, class, radix)

RECURSIVE replaceEscape4(_, _)
\* s.replace(/\\u([0-9a-fA-F]{4})/g, ...) from index i on.
replaceEscape4(s, i) ==
    IF i > Len(s) THEN <<>>
    ELSE IF /\ HasAt(s, i, <<"\\", "u">>)
            /\ i + 5 <= Len(s)
            /\ \A k \in 2..5 : s[i + k] \in HexClass
         THEN <<fromCodePoint(parseInt(SubSeq(s, i + 2, i + 5), 16))>>
              \o replaceEscape4(s, i + 6)
         ELSE <<s[i]>> \o replaceEscape4(s, i + 1)

RECURSIVE replaceEscapeBraces(_, _)
\* s.replace(/\\u\{([0-9a-fA-F]+)\}/g, ...) from index i on.
replaceEscapeBraces(s, i) ==
    IF i > Len(s) THEN <<>>
    ELSE LET to == RunEnd(s, i + 3, HexClass)
         IN  IF /\ HasAt(s, i, <<"\\", "u", "{">>)
                /\ to > i + 3
                /\ to <= Len(s)
                /\ s[to] = "}"
             THEN <<fromCodePoint(parseInt(SubSeq(s, i + 3, to - 1), 16))>>
                  \o replaceEscapeBraces(s, to + 1)
             ELSE <<s[i]>> \o replaceEscapeBraces(s, i + 1)

\* s.replace(<lit>, with) without the g flag: the first occurrence only.
RECURSIVE replaceAll_firstOnly(_, _, _, _)
replaceAll_firstOnly(s, i, lit, with) ==
    IF i > Len(s) THEN <<>>
    ELSE IF HasAt(s, i, lit)
         THEN with \o SubSeq(s, i + Len(lit), Len(s))
         ELSE <<s[i]>> \o replaceAll_firstOnly(s, i + 1, lit, with)

RECURSIVE replaceAll(_, _, _, _)
\* s.replace(/<lit>/g, with) from index i on.
replaceAll(s, i, lit, with) ==
    IF i > Len(s) THEN <<>>
    ELSE IF HasAt(s, i, lit)
         THEN with \o replaceAll(s, i + Len(lit), lit, with)
         ELSE <<s[i]>> \o replaceAll(s, i + 1, lit, with)

\* The pass of decodeEntities over the decimal references.
decodeDecimal(s) == replaceReference(s, 1, <<"&", "#">>, DecimalClass, 10)

\* The hexadecimal pass left out: the references stay as they are written.
decodeHex_skipped(s) == s

\* The pass of decodeEntities over the hexadecimal references.
decodeHex(s) == replaceReference(s, 1, <<"&", "#", "x">>, HexClass, 16)

\* The five named entities of decodeEntities, in order.
decodeNamed(s) ==
    LET quot == replaceAll(s, 1, <<"&", "q", "u", "o", "t", ";">>, <<DoubleQuote>>)
        apos == replaceAll(quot, 1, <<"&", "#", "3", "9", ";">>, <<SingleQuote>>)
        lt == replaceAll(apos, 1, <<"&", "l", "t", ";">>, <<"<">>)
        gt == replaceAll(lt, 1, <<"&", "g", "t", ";">>, <<">">>)
    IN  replaceAll(gt, 1, <<"&", "a", "m", "p", ";">>, <<"&">>)

\* decodeEntities(input); a sequence that holds "RangeError" stands for the
\* exception String.fromCodePoint threw.
decodeEntities(input) ==
    decodeNamed(replaceEscapeBraces(replaceEscape4(decodeHex(decodeDecimal(input)), 1), 1))

\* The class without U+007F.
ControlClass_withoutDelete == Range(ControlCharacters)

\* /[\u0000-\u001F\u007F]/
ControlClass == Range(ControlCharacters) \cup {"U+007F"}

\* The class of the first character of a scheme with "/" in it.
SchemeStartClass_withSlash == AsciiLower \cup AsciiUpper \cup {"/"}

\* [a-zA-Z] and [a-zA-Z0-9+.-]
SchemeStartClass == AsciiLower \cup AsciiUpper
SchemeClass == SchemeStartClass \cup DecimalClass \cup {"+", ".", "-"}

\* decoded.match(/^([a-zA-Z][a-zA-Z0-9+.-]*):/): the length of the match,
\* 0 when there is none.
schemeMatch(decoded) ==
    IF decoded # <<>> /\ decoded[1] \in SchemeStartClass
    THEN LET to == RunEnd(decoded, 2, SchemeClass)
         IN  IF to <= Len(decoded) /\ decoded[to] = ":" THEN to ELSE 0
    ELSE 0

\* /\s/ on the characters of the model.
SpaceClass == {" ", "\t", "\n", "U+000B", "\f", "\r"}

\* sanitizeHref(raw): [kind |-> "string", value |-> ...], [kind |-> "null"]
\* or, when decodeEntities throws, [kind |-> "throw"].
sanitizeHref(raw) ==
    IF raw = <<>> THEN [kind |-> "string", value |-> <<>>]
    ELSE LET decoded == decodeEntities(raw)
             matched == schemeMatch(decoded)
             scheme == toLowerCase(SubSeq(decoded, 1, matched - 1))
             replaced == replaceAll(decoded, 1, <<" ">>, <<"%", "2", "0">>)
         IN  IF "RangeError" \in Range(decoded) THEN [kind |-> "throw"]
             ELSE IF Range(decoded) \cap ControlClass # {} THEN [kind |-> "null"]
             ELSE IF matched > 0
             THEN IF scheme \in {<<"h", "t", "t", "p">>, <<"h", "t", "t", "p", "s">>}
                  THEN IF Range(SubSeq(decoded, 1, matched)) \cap SpaceClass # {}
                       THEN [kind |-> "null"]
                       ELSE [kind |-> "string", value |-> replaced]
                  ELSE [kind |-> "null"]
             ELSE [kind |-> "string", value |-> replaced]

\* ------------------------------------------------------------------------
\* htmlparser: the Parser and its Tokenizer.  A record p holds the
\* Tokenizer's fields (state, buffer, sectionStart, index) and the
\* Parser's (tokens, openTags); the Parser's buffer is the same string.
\* The callbacks onAttribName, onAttribData, onAttribEnd and onEnd of the
\* Parser change none of them.  The names are the source's, after
\* "htmlparser_".
\* ------------------------------------------------------------------------

\* String.prototype.slice(start, end): a negative index counts from the
\* end, an index beyond the string is the string's length.
slice(str, start, end) ==
    LET len == Len(str)
        clamp(k) == IF k < 0 THEN (IF len + k < 0 THEN 0 ELSE len + k)
                    ELSE IF k > len THEN len ELSE k
    IN SubSeq(str, clamp(start) + 1, clamp(end))

htmlparser_isWhitespace(c) == c \in {" ", "\n", "\t", "\r"}

htmlparser_isEndOfTagSection(c) == c = Slash \/ c = Gt \/ htmlparser_isWhitespace(c)

htmlparser_onText(p, start, endIndex) ==
    [p EXCEPT !.tokens = Append(@, [type |-> "text", startIndex |-> start,
                                    endIndex |-> endIndex])]

htmlparser_onCloseTag(p, start, endIndex) ==
    [p EXCEPT !.tokens = Append(@, [type |-> "closeTag", startIndex |-> start - 2,
                                    endIndex |-> endIndex + 1])]

htmlparser_onOpenTagName(p, start, endIndex) ==
    [p EXCEPT !.openTags = Append(@, [type |-> "openTag", startIndex |-> start,
                                      endIndex |-> endIndex])]

htmlparser_onOpenTagEnd(p, endIndex) ==
    IF p.openTags = <<>> THEN p
    ELSE LET token == p.openTags[Len(p.openTags)]
         IN [p EXCEPT !.openTags = SubSeq(@, 1, Len(@) - 1),
                      !.tokens = Append(@, [token EXCEPT !.startIndex = @ - 1,
                                                         !.endIndex = endIndex + 1])]

htmlparser_onSelfClosingTag(p, endIndex) ==
    IF p.openTags = <<>> THEN p
    ELSE LET token == p.openTags[Len(p.openTags)]
         IN [p EXCEPT !.openTags = SubSeq(@, 1, Len(@) - 1),
                      !.tokens = Append(@, [token EXCEPT !.startIndex = @ - 1,
                                                         !.endIndex = endIndex + 2])]

htmlparser_stateText(p, c) ==
    IF c = Lt
    THEN LET p1 == IF p.index > p.sectionStart
                   THEN htmlparser_onText(p, p.sectionStart, p.index)
                   ELSE p
         IN [p1 EXCEPT !.state = "BeforeTagName", !.sectionStart = p.index]
    ELSE p

htmlparser_isTagStartChar(c) == isASCIIAlpha(c)

htmlparser_stateBeforeTagName(p, c) ==
    IF htmlparser_isTagStartChar(c)
    THEN [p EXCEPT !.sectionStart = p.index, !.state = "InTagName"]
    ELSE IF c = Slash
    THEN [p EXCEPT !.state = "BeforeClosingTagName"]
    ELSE htmlparser_stateText([p EXCEPT !.state = "Text"], c)

htmlparser_stateBeforeAttributeName(p, c) ==
    IF c = Gt
    THEN [htmlparser_onOpenTagEnd(p, p.index)
             EXCEPT !.state = "Text", !.sectionStart = p.index + 1]
    ELSE IF c = Slash
    THEN [p EXCEPT !.state = "InSelfClosingTag"]
    ELSE IF ~htmlparser_isWhitespace(c)
    THEN [p EXCEPT !.state = "InAttributeName", !.sectionStart = p.index]
    ELSE p

htmlparser_stateInTagName(p, c) ==
    IF htmlparser_isEndOfTagSection(c)
    THEN htmlparser_stateBeforeAttributeName(
             [htmlparser_onOpenTagName(p, p.sectionStart, p.index)
                 EXCEPT !.sectionStart = -1, !.state = "BeforeAttributeName"], c)
    ELSE p

htmlparser_stateBeforeClosingTagName(p, c) ==
    IF htmlparser_isWhitespace(c)
    THEN p
    ELSE IF c = Gt
    THEN [p EXCEPT !.state = "Text"]
    ELSE [p EXCEPT !.state = "InClosingTagName", !.sectionStart = p.index]

htmlparser_stateAfterClosingTagName(p, c) ==
    IF c = Gt
    THEN [p EXCEPT !.state = "Text", !.sectionStart = p.index + 1]
    ELSE p

htmlparser_stateInClosingTagName(p, c) ==
    IF c = Gt \/ htmlparser_isWhitespace(c)
    THEN htmlparser_stateAfterClosingTagName(
             [htmlparser_onCloseTag(p, p.sectionStart, p.index)
                 EXCEPT !.sectionStart = -1, !.state = "AfterClosingTagName"], c)
    ELSE p

htmlparser_stateInSelfClosingTag(p, c) ==
    IF c = Gt
    THEN [htmlparser_onSelfClosingTag(p, p.index)
             EXCEPT !.state = "Text", !.sectionStart = p.index + 1]
    ELSE IF ~htmlparser_isWhitespace(c)
    THEN htmlparser_stateBeforeAttributeName([p EXCEPT !.state = "BeforeAttributeName"], c)
    ELSE p

htmlparser_stateAfterAttributeName(p, c) ==
    IF c = Eq
    THEN [p EXCEPT !.state = "BeforeAttributeValue"]
    ELSE IF c = Slash \/ c = Gt
    THEN htmlparser_stateBeforeAttributeName(
             [p EXCEPT !.sectionStart = -1, !.state = "BeforeAttributeName"], c)
    ELSE IF ~htmlparser_isWhitespace(c)
    THEN [p EXCEPT !.state = "InAttributeName", !.sectionStart = p.index]
    ELSE p

htmlparser_stateInAttributeName(p, c) ==
    IF c = Eq \/ htmlparser_isEndOfTagSection(c)
    THEN htmlparser_stateAfterAttributeName(
             [p EXCEPT !.sectionStart = p.index, !.state = "AfterAttributeName"], c)
    ELSE p

htmlparser_handleInAttributeValue(p, c, quote) ==
    IF c = quote
    THEN [p EXCEPT !.sectionStart = -1, !.state = "BeforeAttributeName"]
    ELSE p

htmlparser_stateInAttributeValueDoubleQuotes(p, c) ==
    htmlparser_handleInAttributeValue(p, c, DoubleQuote)

htmlparser_stateInAttributeValueSingleQuotes(p, c) ==
    htmlparser_handleInAttributeValue(p, c, SingleQuote)

htmlparser_stateInAttributeValueNoQuotes(p, c) ==
    IF htmlparser_isWhitespace(c) \/ c = Gt
    THEN htmlparser_stateBeforeAttributeName(
             [p EXCEPT !.sectionStart = -1, !.state = "BeforeAttributeName"], c)
    ELSE p

htmlparser_stateBeforeAttributeValue(p, c) ==
    IF c = DoubleQuote
    THEN [p EXCEPT !.state = "InAttributeValueDq", !.sectionStart = p.index + 1]
    ELSE IF c = SingleQuote
    THEN [p EXCEPT !.state = "InAttributeValueSq", !.sectionStart = p.index + 1]
    ELSE IF ~htmlparser_isWhitespace(c)
    THEN htmlparser_stateInAttributeValueNoQuotes(
             [p EXCEPT !.sectionStart = p.index, !.state = "InAttributeValueNq"], c)
    ELSE p

htmlparser_cleanup(p) ==
    IF p.sectionStart # p.index
    THEN IF p.state = "Text"
         THEN [htmlparser_onText(p, p.sectionStart, p.index) EXCEPT !.sectionStart = p.index]
         ELSE IF p.state \in {"InAttributeValueDq", "InAttributeValueSq",
                              "InAttributeValueNq"}
         THEN [p EXCEPT !.sectionStart = p.index]
         ELSE p
    ELSE p

htmlparser_shouldContinue(p) == p.index < Len(p.buffer)

\* One iteration of the loop of parseInternal.
htmlparser_parseInternal_step(p) ==
    LET c == p.buffer[p.index + 1]
        p1 == CASE p.state = "Text" -> htmlparser_stateText(p, c)
                [] p.state = "InAttributeValueDq" ->
                       htmlparser_stateInAttributeValueDoubleQuotes(p, c)
                [] p.state = "InAttributeName" -> htmlparser_stateInAttributeName(p, c)
                [] p.state = "BeforeAttributeName" ->
                       htmlparser_stateBeforeAttributeName(p, c)
                [] p.state = "InTagName" -> htmlparser_stateInTagName(p, c)
                [] p.state = "InClosingTagName" -> htmlparser_stateInClosingTagName(p, c)
                [] p.state = "BeforeTagName" -> htmlparser_stateBeforeTagName(p, c)
                [] p.state = "AfterAttributeName" ->
                       htmlparser_stateAfterAttributeName(p, c)
                [] p.state = "InAttributeValueSq" ->
                       htmlparser_stateInAttributeValueSingleQuotes(p, c)
                [] p.state = "BeforeAttributeValue" ->
                       htmlparser_stateBeforeAttributeValue(p, c)
                [] p.state = "BeforeClosingTagName" ->
                       htmlparser_stateBeforeClosingTagName(p, c)
                [] p.state = "AfterClosingTagName" ->
                       htmlparser_stateAfterClosingTagName(p, c)
                [] p.state = "InAttributeValueNq" ->
                       htmlparser_stateInAttributeValueNoQuotes(p, c)
                [] p.state = "InSelfClosingTag" -> htmlparser_stateInSelfClosingTag(p, c)
    IN [p1 EXCEPT !.index = @ + 1]

RECURSIVE htmlparser_parseInternal(_)
htmlparser_parseInternal(p) ==
    IF htmlparser_shouldContinue(p)
    THEN htmlparser_parseInternal(htmlparser_parseInternal_step(p))
    ELSE htmlparser_cleanup(p)

htmlparser_handleTrailingData(p) ==
    IF p.sectionStart >= Len(p.buffer)
    THEN p
    ELSE htmlparser_onText(p, p.sectionStart, Len(p.buffer))

htmlparser_finish(p) == htmlparser_handleTrailingData(p)

\* Tokenizer.parse(rawHtml) of htmlparser, on a new Tokenizer.
htmlparser_Tokenizer_parse(p, rawHtml) ==
    htmlparser_finish(htmlparser_parseInternal(
        [p EXCEPT !.state = "Text", !.sectionStart = 0, !.index = 0,
                  !.buffer = rawHtml]))

\* Parser.parse(rawHtmlText): the tokens it returns.
htmlparser_Parser_parse(text) ==
    htmlparser_Tokenizer_parse(
        [state |-> "Text", buffer |-> <<>>, sectionStart |-> 0, index |-> 0,
         tokens |-> <<>>, openTags |-> <<>>], text).tokens

\* ------------------------------------------------------------------------
\* State
\* ------------------------------------------------------------------------

VARIABLES
    options,         \* SanitizeParser.options
    allowedTagsMap,  \* SanitizeParser.allowedTagsMap
    pc,              \* "idle" before a call, "loop" in the loop of
                     \* Tokenizer.parse, "done" after the call
    htmlText,        \* the argument of sanitize, or of Tokenizer.parse
    tokens,          \* the Token[] built by tokenizeHtml
    result,          \* the pieces pushed by processTokens
    calls,           \* the invocations of onAttribute, in order
    caught,          \* the catch block of sanitize ran
    outcome,         \* "returned" or "threw": how the call of sanitize ended
    html,            \* the html field of the value sanitize returned
    warnings,        \* the number of console.warn calls of sanitize
    value,           \* the value sanitize was called with
    history,         \* the calls of sanitize on this parser: argument and html
    hrefParts,       \* the spellings the argument of sanitizeHref is made of
    raw,             \* the argument of sanitizeHref
    href,            \* what the call of sanitizeHref returned
    rawHtmlText,     \* the argument of Parser.parse
    parserTokens     \* the tokens Parser.parse returned

vars == <<options, allowedTagsMap, pc, htmlText, tokenizer, tokens, result, calls,
          caught, outcome, html, warnings, value, history, hrefParts, raw, href,
          rawHtmlText, parserTokens>>

\* Every string over alphabet of length at most n.
Strings(alphabet, n) == UNION {[1..k -> alphabet] : k \in 0..n}

\* Markup inputs: an optional character of text, then (unless the input is
\* text only) a "<" followed by every string over Alphabet of length at
\* most MaxLen.
MarkupInputs ==
    {lead \o rest : lead \in {<<>>, <<"s">>},
                    rest \in {<<>>} \cup {<<"<">> \o r : r \in Strings(Alphabet, MaxLen)}}

\* The ways an attribute is written after its name: no value, an empty,
\* unquoted, double-quoted or single-quoted value, quoted values that hold
\* ">" or the other quote, an unquoted value that ends in "/", and a
\* double-quoted value that is not closed.
ValueSpellings ==
    { <<>>,
      <<"=">>,
      <<"=", "s">>,
      <<"=", "b", "/">>,
      <<"=", "\"", "b", "\"">>,
      <<"=", "'", "s", "'">>,
      <<"=", "\"", ">", "\"">>,
      <<"=", "'", "\"", "'">>,
      <<"=", "\"", "b">> }

\* An attribute as written in the input: whitespace, a name, a value.
AttributeSpellings ==
    {<<" ">> \o name \o v : name \in {<<"s">>, <<"B">>}, v \in ValueSpellings}

\* The ways the tag of an attribute input ends: not at all, ">", "/>" and
\* " / >".
TagEndings == {<<>>, <<">">>, <<"/", ">">>, <<" ", "/", " ", ">">>}

\* Attribute inputs: "<b", at most MaxAttrs attributes, and an ending.
AttributeInputs ==
    {<<"<", "b">> \o Flatten(as) \o e :
        as \in Strings(AttributeSpellings, MaxAttrs), e \in TagEndings}

\* The texts and tags element inputs are made of: a text, open tags with
\* and without an attribute, a self-closing tag, close tags without and
\* with whitespace before the ">", an open tag and a close tag that the
\* allow-lists do not allow, an "&" as a text, in a tag that is not
\* allowed and in an attribute value, and an open tag with a "<" in its
\* attribute area.
ElementParts ==
    { <<"s">>,
      <<"<", "b", ">">>,
      <<"<", "B", " ", "s", ">">>,
      <<"<", "b", "/", ">">>,
      <<"<", "/", "b", ">">>,
      <<"<", "/", "B", " ", ">">>,
      <<"<", "s", ">">>,
      <<"<", "/", "s", ">">>,
      <<"&">>,
      <<"<", "s", " ", "&", ">">>,
      <<"<", "b", " ", "B", "=", "&", ">">>,
      <<"<", "b", " ", "<", "s", ">">> }

\* Element inputs: at most MaxParts texts and tags, one after the other.
ElementInputs == {Flatten(ps) : ps \in Strings(ElementParts, MaxParts)}

\* The inputs handed to sanitize.
Inputs == MarkupInputs \cup AttributeInputs \cup ElementInputs

\* No call has been made: the variables that hold what a call did.
NotCalled ==
    /\ pc = "idle"
    /\ tokenizer = newTokenizer
    /\ tokens = <<>>
    /\ result = <<>>
    /\ calls = <<>>
    /\ caught = FALSE
    /\ outcome = "none"
    /\ html = <<>>
    /\ warnings = 0
    /\ value = Value("none", TRUE, <<>>)
    /\ history = <<>>
    /\ href = [kind |-> "none"]
    /\ parserTokens = <<>>

\* The state after `new SanitizeParser(options)`.
Init ==
    /\ options \in OptionsSet
    /\ allowedTagsMap = buildAllowedTagsMap(options)
    /\ htmlText = <<>>
    /\ hrefParts = <<>>
    /\ raw = <<>>
    /\ rawHtmlText = <<>>
    /\ NotCalled

\* The call parser.sanitize(v): what it leaves behind.
Call(v) ==
    /\ \E r \in {sanitizeValue(allowedTagsMap, v)} :
            /\ value' = v
            /\ htmlText' = v.string
            /\ tokenizer' = IF v.converts /\ v.string # <<>> THEN r.tokenizer ELSE tokenizer
            /\ tokens' = r.tokens
            /\ calls' = r.calls
            /\ caught' = r.caught
            /\ result' = r.result
            /\ outcome' = r.outcome
            /\ html' = r.html
            /\ warnings' = r.warnings
            /\ history' = Append(history, [htmlText |-> v.string, html |-> r.html])
    /\ pc' = "done"
    /\ UNCHANGED <<options, allowedTagsMap, hrefParts, raw, href, rawHtmlText,
                   parserTokens>>

\* A call parser.sanitize(input) with a string.
Sanitize ==
    /\ pc = "idle"
    /\ \E input \in Inputs : Call(StringValue(input))

Next == Sanitize

Spec == Init /\ [][Next]_vars

\* The spellings a raw href is made of, each with the text it stands for
\* (stands is <<>> for a reference to a code point above U+10FFFF, which
\* stands for no text): a letter as written, as a decimal and as a
\* hexadecimal reference with and without the ";", as \uXXXX and as
\* \u{...}; ":" as written and as a reference; "http" and the "S" that
\* makes it "httpS"; "/", " ", a named entity; and control characters as
\* a decimal reference, as written, as \uXXXX and as a hexadecimal
\* reference.
HrefParts ==
    { [written |-> <<"j">>, stands |-> <<"j">>],
      [written |-> <<"&", "#", "1", "0", "6", ";">>, stands |-> <<"j">>],
      [written |-> <<"&", "#", "7", "4">>, stands |-> <<"J">>],
      [written |-> <<"&", "#", "x", "6", "A", ";">>, stands |-> <<"j">>],
      [written |-> <<"&", "#", "x", "6", "a">>, stands |-> <<"j">>],
      [written |-> <<"\\", "u", "0", "0", "6", "a">>, stands |-> <<"j">>],
      [written |-> <<"\\", "u", "{", "4", "A", "}">>, stands |-> <<"J">>],
      [written |-> <<":">>, stands |-> <<":">>],
      [written |-> <<"&", "#", "5", "8", ";">>, stands |-> <<":">>],
      [written |-> <<"h", "t", "t", "p">>, stands |-> <<"h", "t", "t", "p">>],
      [written |-> <<"S">>, stands |-> <<"S">>],
      [written |-> <<"/">>, stands |-> <<"/">>],
      [written |-> <<" ">>, stands |-> <<" ">>],
      [written |-> <<"&", "a", "m", "p", ";">>, stands |-> <<"&">>],
      [written |-> <<"&", "#", "9", ";">>, stands |-> <<"\t">>],
      [written |-> <<"\n">>, stands |-> <<"\n">>],
      [written |-> <<"\\", "u", "0", "0", "1", "F">>, stands |-> <<"U+001F">>],
      [written |-> <<"&", "#", "x", "7", "f", ";">>, stands |-> <<"U+007F">>],
      [written |-> <<"&", "#", "1", "1", "1", "4", "1", "1", "2", ";">>,
       stands |-> <<>>] }

\* The raw hrefs handed to sanitizeHref: at most MaxHrefParts spellings.
HrefInputs == Strings(HrefParts, MaxHrefParts)

\* The text of a raw href as it is written.
Written(parts) == Flatten([i \in DOMAIN parts |-> parts[i].written])

\* The state before a call of sanitizeHref, with a parser without options:
\* the caller holds the raw href it is about to pass.
InitHref ==
    /\ options = NoOptions
    /\ allowedTagsMap = buildAllowedTagsMap(options)
    /\ htmlText = <<>>
    /\ hrefParts \in HrefInputs
    /\ raw = Written(hrefParts)
    /\ rawHtmlText = <<>>
    /\ NotCalled

\* The call sanitizeHref(raw).
SanitizeHref ==
    /\ pc = "idle"
    /\ href' = sanitizeHref(raw)
    /\ pc' = "done"
    /\ UNCHANGED <<options, allowedTagsMap, htmlText, tokenizer, tokens, result,
                   calls, caught, outcome, html, warnings, value, history,
                   hrefParts, raw, rawHtmlText, parserTokens>>

NextHref == SanitizeHref

SpecHref == InitHref /\ [][NextHref]_vars

\* The pieces the chunks handed to Tokenizer.parse are made of: the start
\* of an open tag without and with an attribute name, an attribute name,
\* an unquoted and an empty double-quoted value, "=", a double quote,
\* whitespace, "/", ">", "<", the start of a close tag, and a text.
ParseParts ==
    { <<"<", "b">>,
      <<"<", "b", " ", "s">>,
      <<" ", "s">>,
      <<"=", "s">>,
      <<"=", "\"", "\"">>,
      <<"=">>,
      <<"\"">>,
      <<" ">>,
      <<"/">>,
      <<">">>,
      <<"<">>,
      <<"<", "/", "b">>,
      <<"s">> }

\* The chunks handed to Tokenizer.parse: at most MaxParseParts pieces.
ParseInputs == {Flatten(ps) : ps \in Strings(ParseParts, MaxParseParts)}

\* The state before a call tokenizer.parse(chunk) on a new Tokenizer, whose
\* callbacks are those of tokenizeHtml: the caller holds the chunk.
InitParse ==
    /\ options = NoOptions
    /\ allowedTagsMap = buildAllowedTagsMap(options)
    /\ htmlText \in ParseInputs
    /\ hrefParts = <<>>
    /\ raw = <<>>
    /\ rawHtmlText = <<>>
    /\ NotCalled

\* Tokenizer.parse(chunk): the assignments before the loop.
ParseBegin ==
    /\ pc = "idle"
    /\ tokenizer' = parseStart(tokenizer, htmlText)
    /\ pc' = "loop"
    /\ UNCHANGED <<options, allowedTagsMap, htmlText, tokens, result, calls, caught,
                   outcome, html, warnings, value, history, hrefParts, raw, href,
                   rawHtmlText, parserTokens>>

\* Tokenizer.parse(chunk): one iteration of the loop.
ParseStep ==
    /\ pc = "loop"
    /\ tokenizer.index < Len(tokenizer.buffer)
    /\ tokenizer' = parseStep(tokenizer)
    /\ UNCHANGED <<options, allowedTagsMap, pc, htmlText, tokens, result, calls,
                   caught, outcome, html, warnings, value, history, hrefParts, raw,
                   href, rawHtmlText, parserTokens>>

\* Tokenizer.parse(chunk): the loop is left and finish runs; tokenizeHtml
\* returns the tokens.
ParseFinish ==
    /\ pc = "loop"
    /\ ~(tokenizer.index < Len(tokenizer.buffer))
    /\ tokenizer' = finish(tokenizer)
    /\ tokens' = tokenizer'.tokens
    /\ pc' = "done"
    /\ UNCHANGED <<options, allowedTagsMap, htmlText, result, calls, caught,
                   outcome, html, warnings, value, history, hrefParts, raw, href,
                   rawHtmlText, parserTokens>>

NextParse == ParseBegin \/ ParseStep \/ ParseFinish

\* parse is one synchronous call: a step that can be taken is taken.
SpecParse == InitParse /\ [][NextParse]_vars /\ WF_vars(NextParse)

\* The inputs of the calls made one after the other on one parser: inputs
\* that end inside a tag, inside a quoted attribute value and inside a
\* close tag, tags with and without an attribute, and a text.
ReuseInputs ==
    { <<"<", "b", " ", "s">>,
      <<"<", "b", " ", "b", "=", "\"", "s">>,
      <<"<", "/", "b">>,
      <<"<", "b", ">">>,
      <<"<", "b", " ", "b", ">", "s">>,
      <<"s">> }

\* One more call parser.sanitize(input) on the same parser.
SanitizeAgain ==
    /\ Len(history) < MaxCalls
    /\ \E input \in ReuseInputs : Call(StringValue(input))

NextReuse == SanitizeAgain

SpecReuse == Init /\ [][NextReuse]_vars

\* The strings of the values handed to sanitize.
ValueTexts == {Flatten(ps) : ps \in Strings(ElementParts, MaxValueParts)}

\* The values handed to sanitize: strings, one-element arrays [string]
\* (String([s]) is s), the number 123, undefined, and Object.create(null),
\* for which String throws.
Values ==
    {StringValue(s) : s \in ValueTexts}
    \cup {Value("object", TRUE, s) : s \in ValueTexts}
    \cup { Value("number", TRUE, <<"1", "2", "3">>),
           Value("undefined", TRUE, <<"u", "n", "d", "e", "f", "i", "n", "e", "d">>),
           Value("object", FALSE, <<>>) }

\* A call parser.sanitize(v) with any value.
SanitizeAnyValue ==
    /\ pc = "idle"
    /\ \E v \in Values : Call(v)

NextValues == SanitizeAnyValue

SpecValues == Init /\ [][NextValues]_vars

\* The pieces the texts handed to Parser.parse are made of: the starts of
\* an open and of a close tag, a tag name, whitespace, "/", ">", and an
\* attribute with a quoted value.
ParserParts ==
    { <<"<">>,
      <<"<", "/">>,
      <<"b">>,
      <<" ">>,
      <<"/">>,
      <<">">>,
      <<" ", "s", "=", "\"", "b", "\"">> }

\* The texts handed to Parser.parse: at most MaxParserParts pieces.
ParserInputs == {Flatten(ps) : ps \in Strings(ParserParts, MaxParserParts)}

\* The state before a call parser.parse(rawHtmlText) on a new Parser of
\* htmlparser: the caller holds the text.
InitParser ==
    /\ options = NoOptions
    /\ allowedTagsMap = buildAllowedTagsMap(options)
    /\ htmlText = <<>>
    /\ hrefParts = <<>>
    /\ raw = <<>>
    /\ rawHtmlText \in ParserInputs
    /\ NotCalled

\* The call parser.parse(rawHtmlText).
ParserParse ==
    /\ pc = "idle"
    /\ parserTokens' = htmlparser_Parser_parse(rawHtmlText)
    /\ pc' = "done"
    /\ UNCHANGED <<options, allowedTagsMap, htmlText, tokenizer, tokens, result,
                   calls, caught, outcome, html, warnings, value, history,
                   hrefParts, raw, href, rawHtmlText>>

NextParser == ParserParse

SpecParser == InitParser /\ [][NextParser]_vars

\* Tag forms.  Value forms: "<b b=" and every string of at most MaxFormLen
\* characters among the quotes, ">", "<", "/", "=", a space and a letter.
ValueForms ==
    {<<"<", "b", " ", "b", "=">> \o r :
        r \in Strings({"\"", "'", ">", "<", "/", "=", " ", "s"}, MaxFormLen)}

\* Name forms: "<b b" and what may follow an attribute name.
NameForms ==
    {<<"<", "b", " ", "b">> \o r : r \in Strings({" ", "/", ">", "=", "s"}, MaxFormLen)}

\* Open forms: an optional character of text, a "<", and every string of
\* at most MaxFormLen characters among "<", ">", "/", a space, a letter,
\* "!" and a digit.
OpenForms ==
    {lead \o <<"<">> \o r :
        lead \in {<<>>, <<"s">>},
        r \in Strings({"<", ">", "/", " ", "b", "!", "1"}, MaxFormLen)}

FormInputs == ValueForms \cup NameForms \cup OpenForms

\* The state after `new SanitizeParser(options)` with a rule for "b" that
\* keeps every attribute, or with a rule whose callback decides.
InitForms ==
    /\ options \in {PlainOptions, StrictOptions}
    /\ allowedTagsMap = buildAllowedTagsMap(options)
    /\ htmlText = <<>>
    /\ hrefParts = <<>>
    /\ raw = <<>>
    /\ rawHtmlText = <<>>
    /\ NotCalled

\* A call parser.sanitize(input) with a tag form.
SanitizeForm ==
    /\ pc = "idle"
    /\ \E input \in FormInputs : Call(StringValue(input))

NextForms == SanitizeForm

SpecForms == InitForms /\ [][NextForms]_vars

\* ------------------------------------------------------------------------
\* Properties
\* ------------------------------------------------------------------------

\* The text of token i in the input.
TokenText(i) == Slice(htmlText, tokens[i].start, tokens[i].end)

IsTag(i) == tokens[i].tokenType \in {"openTag", "selfClosingTag"}

\* The number of occurrences of character c in str.
Count(str, c) == Cardinality({i \in DOMAIN str : str[i] = c})

\* The Tokenizer when the loop of parse has read all of htmlText, before
\* finish runs.
AtEndOfInput == parseLoop(parseStart(newTokenizer, htmlText))

RECURSIVE NameRun(_, _)
\* The tag name a reader finds in str from position j on: the characters up
\* to the next whitespace, "/" or ">".
NameRun(str, j) ==
    IF j > Len(str) \/ isEndOfTagSection(str[j]) THEN <<>>
    ELSE <<str[j]>> \o NameRun(str, j + 1)

\* C1: allow-list closure.  In the output of sanitize every "<" that is
\* followed by a tag name is followed by the name of an allowed tag.
C1_AllowListClosure ==
    pc = "done" =>
        \A i \in DOMAIN html :
            (html[i] = "<" /\ i < Len(html) /\ isASCIIAlpha(html[i + 1])) =>
                isAllowedTag(allowedTagsMap, NameRun(html, i + 1))

\* The rule of token i, an open tag that is allowed.
RuleOf(i) == findAllowedTag(allowedTagsMap, tokens[i].tagName)

\* The attribute filter as C2 states it: attribute k of token i is kept iff
\* the rule has no onAttribute or onAttribute(lower-cased name, raw value)
\* returned true.
C2_Keeps(i, k) ==
    \/ RuleOf(i).onAttribute = "none"
    \/ CallOnAttribute(RuleOf(i).onAttribute,
                       toLowerCase(tokens[i].attributes[k].name),
                       tokens[i].attributes[k].value) = "true"

C6_NeverThrows ==
    pc = "done" =>
        /\ outcome = "returned"
        /\ threw(calls) => (caught /\ html = escapeText(htmlText) /\ result = <<>>)

\* C6 witness: a call in which onAttribute threw in a tag that follows a
\* text, and sanitize returned the escaped input.
C6_Witness ==
    /\ pc = "done"
    /\ threw(calls)
    /\ Len(tokens) >= 2
    /\ tokens[1].tokenType = "text"
    /\ outcome = "returned"
    /\ html = escapeText(htmlText)

\* C4: span coverage.  Concatenating the text of every token of
\* tokenizeHtml, the final flushed text included, gives back the input.
C4_SpanCoverage ==
    pc = "done" => Flatten([i \in DOMAIN tokens |-> TokenText(i)]) = htmlText

\* C5: with no allowed tag, sanitize returns the escape-text of the
\* whole input.
C5_NoOptionsEscapesAll ==
    (pc = "done" /\ options.allowedTags = <<>>) => html = escapeText(htmlText)

\* C7: when the input ends in a state other than Text, the construct that
\* was being read, from its "<" to the end of the input, lies in one final
\* Text token, so that it is rendered escaped and never as a tag.
C7_UnterminatedIsText ==
    (pc = "done" /\ htmlText # <<>> /\ AtEndOfInput.state # "Text") =>
        /\ tokens # <<>>
        /\ tokens[Len(tokens)].tokenType = "text"
        /\ tokens[Len(tokens)].end = Len(htmlText)
        /\ tokens[Len(tokens)].start <= AtEndOfInput.tagStart
        /\ ~caught =>
               result[Len(tokens)]
                   = escapeText(Slice(htmlText, tokens[Len(tokens)].start, Len(htmlText)))

\* C8: every token has 0 <= start < end <= input length, and each token
\* starts at or after the end of the token before it.
C8_SpansOrdered ==
    pc = "done" =>
        /\ \A i \in DOMAIN tokens :
               /\ 0 <= tokens[i].start
               /\ tokens[i].start < tokens[i].end
               /\ tokens[i].end <= Len(htmlText)
        /\ \A i \in DOMAIN tokens :
               i > 1 => tokens[i].start >= tokens[i - 1].end

\* C8 witness: tokens of all kinds in one token list, a text between tags.
C8_Witness ==
    /\ pc = "done"
    /\ Len(tokens) >= 3
    /\ IsTag(1)
    /\ tokens[2].tokenType = "text"
    /\ tokens[3].tokenType = "closeTag"

\* C9: the span of every CloseTag token begins with "</" and ends with the
\* ">" that terminates the close tag.
C9_CloseTagSpan ==
    pc = "done" =>
        \A i \in DOMAIN tokens :
            tokens[i].tokenType = "closeTag" =>
                /\ tokens[i].end - tokens[i].start >= 3
                /\ htmlText[tokens[i].start + 1] = "<"
                /\ htmlText[tokens[i].start + 2] = "/"
                /\ htmlText[tokens[i].end] = ">"

\* The characters of the quoted attribute values of token i.
QuotedValues(i) ==
    Flatten([k \in DOMAIN tokens[i].attributes |->
                IF tokens[i].attributes[k].quoteType \in {"Single", "Double"}
                THEN tokens[i].attributes[k].value
                ELSE <<>>])

\* C10: the span of every OpenTag and SelfClosingTag token starts at the
\* "<" that is followed by the tag's name and ends with the ">" that closed
\* the tag (any ">" before it lies in a quoted attribute value), and a tag
\* that is not allowed is rendered as the escape of exactly that span.
C10_OpenTagSpan ==
    pc = "done" =>
        \A i \in DOMAIN tokens :
            IsTag(i) =>
                /\ htmlText[tokens[i].start + 1] = "<"
                /\ tokens[i].tagName # <<>>
                /\ Slice(htmlText, tokens[i].start + 1,
                         tokens[i].start + 1 + Len(tokens[i].tagName)) = tokens[i].tagName
                /\ isASCIIAlpha(tokens[i].tagName[1])
                /\ \A k \in DOMAIN tokens[i].tagName :
                       ~isEndOfTagSection(tokens[i].tagName[k])
                /\ isEndOfTagSection(
                       htmlText[tokens[i].start + 2 + Len(tokens[i].tagName)])
                /\ htmlText[tokens[i].end] = ">"
                /\ Count(Slice(htmlText, tokens[i].start, tokens[i].end - 1), ">")
                       = Count(QuotedValues(i), ">")
                /\ (~caught /\ ~isAllowedTag(allowedTagsMap, tokens[i].tagName)) =>
                       result[i] = escapeText(TokenText(i))

\* C10 witness: a tag that is not allowed, rendered escaped, whose
\* attribute area holds a further "<".
C10_Witness ==
    /\ pc = "done"
    /\ ~caught
    /\ \E i \in DOMAIN tokens :
           /\ IsTag(i)
           /\ ~isAllowedTag(allowedTagsMap, tokens[i].tagName)
           /\ \E k \in DOMAIN tokens[i].attributes :
                  Count(tokens[i].attributes[k].name, "<") >= 1
           /\ result[i] = escapeText(TokenText(i))

\* The text a raw href stands for once every reference and escape in it is
\* decoded.
Stands(parts) == Flatten([i \in DOMAIN parts |-> parts[i].stands])

\* Every reference of the raw href names a code point.
Decodable(parts) == \A i \in DOMAIN parts : parts[i].stands # <<>>

\* The scheme a text begins with: the letters, digits, "+", "." and "-"
\* before its first ":", when there is one, they begin with a letter and
\* nothing else comes before the ":"; <<>> otherwise.
SchemeOf(text) ==
    IF \E k \in DOMAIN text : text[k] = ":"
    THEN LET k == CHOOSE k \in DOMAIN text :
                      text[k] = ":" /\ \A i \in 1..(k - 1) : text[i] # ":"
         IN  IF /\ k > 1
                /\ text[1] \in AsciiLower \cup AsciiUpper
                /\ \A i \in 2..(k - 1) : text[i] \in SchemeClass
             THEN SubSeq(text, 1, k - 1)
             ELSE <<>>
    ELSE <<>>

\* C3: sanitizeHref returns null for every raw href whose decoded form
\* begins with a scheme other than http and https in any letter case,
\* however the characters of the scheme and its ":" are written: as they
\* are, as decimal or hexadecimal references with or without the ";", or
\* as \uXXXX or \u{...} escapes.
C3_OtherSchemesRejected ==
    (pc = "done" /\ hrefParts # <<>> /\ Decodable(hrefParts)) =>
        LET scheme == toLowerCase(SchemeOf(Stands(hrefParts)))
        IN  (scheme # <<>> /\ scheme \notin {<<"h", "t", "t", "p">>,
                                            <<"h", "t", "t", "p", "s">>})
                => href = [kind |-> "null"]

\* A raw href whose scheme is spelled with a hexadecimal reference, so that
\* the raw text itself begins with no scheme, has been rejected.
C3_Witness ==
    /\ pc = "done"
    /\ Decodable(hrefParts)
    /\ HasAt(raw, 1, <<"&", "#", "x">>)
    /\ schemeMatch(raw) = 0
    /\ "\t" \notin Range(Stands(hrefParts))
    /\ toLowerCase(SchemeOf(Stands(hrefParts))) = <<"j", "j">>
    /\ href = [kind |-> "null"]

\* Token i is an open or self-closing tag that the allow-list allows.
IsAllowedTagToken(i) ==
    IsTag(i) /\ isAllowedTag(allowedTagsMap, tokens[i].tagName)

\* The default attributes of the rule of token i as they are declared.
Declared(i) == RuleOf(i).defaultAttributes

\* A default attribute as it is written into a tag.
DefaultText(d) ==
    <<" ">> \o d[1] \o <<"=", DoubleQuote>> \o escapeText(d[2]) \o <<DoubleQuote>>

\* The source attributes of token i that are kept, as they are rendered,
\* in source order.
KeptText(i) ==
    Flatten([k \in DOMAIN tokens[i].attributes |->
                IF C2_Keeps(i, k) THEN renderAttribute(tokens[i].attributes[k])
                ELSE <<>>])

\* The end of a rendered tag.
EndText(i) ==
    IF tokens[i].tokenType = "selfClosingTag" THEN <<" ", "/", ">">> ELSE <<">">>

\* str occurs in text.
Occurs(str, text) ==
    \E j \in 1..(Len(text) - Len(str) + 1) : SubSeq(text, j, j + Len(str) - 1) = str

\* What the rendered tag of token i holds after its kept source attributes.
AfterKept(i) ==
    SubSeq(result[i], 2 + Len(tokens[i].tagName) + Len(KeptText(i)), Len(result[i]))

\* The default attribute d was appended to the rendered tag of token i.
Appended(i, d) == Occurs(DefaultText(d), AfterKept(i))

\* C11: a default attribute is not appended to a rendered tag when the
\* source tag has an attribute whose name equals the name of the default
\* ignoring letter case.
C11_DefaultSuppressedIgnoringCase ==
    (pc = "done" /\ ~caught) =>
        \A i \in DOMAIN tokens :
            IsAllowedTagToken(i) =>
                \A j \in DOMAIN Declared(i) :
                    (\E k \in DOMAIN tokens[i].attributes :
                        toLowerCase(tokens[i].attributes[k].name)
                            = toLowerCase(Declared(i)[j][1]))
                    => ~Appended(i, Declared(i)[j])

\* C12: a default attribute is not appended when the source tag has an
\* attribute of the same name, also when onAttribute rejected that
\* attribute; and when no source attribute has the name (in any letter
\* case) the default attribute is appended with its declared value, escaped
\* as attribute values are.
C12_DefaultSuppressedByRejected ==
    (pc = "done" /\ ~caught) =>
        \A i \in DOMAIN tokens :
            IsAllowedTagToken(i) =>
                \A j \in DOMAIN Declared(i) :
                    /\ (\E k \in DOMAIN tokens[i].attributes :
                            tokens[i].attributes[k].name = Declared(i)[j][1])
                       => ~Appended(i, Declared(i)[j])
                    /\ (\A k \in DOMAIN tokens[i].attributes :
                            toLowerCase(tokens[i].attributes[k].name)
                                # toLowerCase(Declared(i)[j][1]))
                       => Appended(i, Declared(i)[j])

\* C12 witness: a rendered tag with a source attribute that onAttribute
\* rejected, whose default of the same name was not appended while another
\* default was.
C12_Witness ==
    /\ pc = "done"
    /\ ~caught
    /\ \E i \in DOMAIN tokens :
           /\ IsAllowedTagToken(i)
           /\ \E j, m \in DOMAIN Declared(i) :
                  /\ \E k \in DOMAIN tokens[i].attributes :
                         /\ tokens[i].attributes[k].name = Declared(i)[j][1]
                         /\ ~C2_Keeps(i, k)
                  /\ ~Appended(i, Declared(i)[j])
                  /\ \A k \in DOMAIN tokens[i].attributes :
                         toLowerCase(tokens[i].attributes[k].name)
                             # toLowerCase(Declared(i)[m][1])
                  /\ Appended(i, Declared(i)[m])

\* The rendered tag of token i is its name, its kept source attributes in
\* source order, then some of the default attributes in the order given by
\* entries, then its end.
KeptThenDefaults(i, entries) ==
    \E appended \in SUBSET DOMAIN entries :
        result[i] =
            <<"<">> \o tokens[i].tagName \o KeptText(i)
                \o Flatten([j \in DOMAIN entries |->
                               IF j \in appended THEN DefaultText(entries[j])
                               ELSE <<>>])
                \o EndText(i)

EscapeKeepingAmpersand(str) ==
    Flatten([i \in DOMAIN str |->
                CASE str[i] = "<" -> <<"&", "l", "t", ";">>
                  [] str[i] = ">" -> <<"&", "g", "t", ";">>
                  [] str[i] = DoubleQuote -> <<"&", "q", "u", "o", "t", ";">>
                  [] str[i] = SingleQuote -> <<"&", "#", "3", "9", ";">>
                  [] OTHER -> <<str[i]>>])

\* C14: escaping never rewrites "&".  A text token and a tag that is not
\* allowed are rendered with "<", ">", the double quote and "'" replaced by
\* their entities and every "&" unchanged, and so is the value of a kept
\* attribute.
C14_AmpersandUnchanged ==
    (pc = "done" /\ ~caught) =>
        \A i \in DOMAIN tokens :
            IF IsAllowedTagToken(i)
            THEN \A k \in DOMAIN tokens[i].attributes :
                     (C2_Keeps(i, k) /\ tokens[i].attributes[k].quoteType # "NoValue") =>
                         Occurs(<<"=", DoubleQuote>>
                                    \o EscapeKeepingAmpersand(tokens[i].attributes[k].value)
                                    \o <<DoubleQuote>>,
                                result[i])
            ELSE (tokens[i].tokenType = "text"
                    \/ ~isAllowedTag(allowedTagsMap, tokens[i].tagName)) =>
                     result[i] = EscapeKeepingAmpersand(TokenText(i))

\* C15: with no tag in the allow-list sanitize is idempotent: sanitizing
\* its own output gives that output again.
C15_Idempotent ==
    (pc = "done" /\ options.allowedTags = <<>>) =>
        sanitize(allowedTagsMap, html).html = html

\* C16: a kept attribute whose value was written in single quotes is
\* rendered as name='value' with the value as written, and a kept
\* attribute whose value was written in double quotes or without quotes is
\* rendered as name="value" with the value escaped.
C16_SingleQuotesKept ==
    (pc = "done" /\ ~caught) =>
        \A i \in DOMAIN tokens :
            IsAllowedTagToken(i) =>
                \A k \in DOMAIN tokens[i].attributes :
                    LET attr == tokens[i].attributes[k]
                    IN  C2_Keeps(i, k) =>
                            /\ attr.quoteType = "Single" =>
                                   Occurs(<<" ">> \o attr.name \o <<"=", SingleQuote>>
                                              \o attr.value \o <<SingleQuote>>,
                                          result[i])
                            /\ attr.quoteType \in {"Double", "Unquoted"} =>
                                   Occurs(<<" ">> \o attr.name \o <<"=", DoubleQuote>>
                                              \o escapeText(attr.value) \o <<DoubleQuote>>,
                                          result[i])

\* The attributes of the rendered tag of token i: what lies between its
\* name and its end.
AttributesText(i) ==
    SubSeq(result[i], 2 + Len(tokens[i].tagName), Len(result[i]) - Len(EndText(i)))

\* The kept source attributes of token i that have a value.
KeptWithValue(i) ==
    {k \in DOMAIN tokens[i].attributes :
        C2_Keeps(i, k) /\ tokens[i].attributes[k].quoteType # "NoValue"}

\* The names of the kept source attributes of token i, one after the other.
KeptNames(i) ==
    Flatten([k \in DOMAIN tokens[i].attributes |->
                IF C2_Keeps(i, k) THEN tokens[i].attributes[k].name ELSE <<>>])

RECURSIVE StripTrailingWhitespace(_)
\* str without the whitespace at its end.
StripTrailingWhitespace(str) ==
    IF str # <<>> /\ isWhitespace(str[Len(str)])
    THEN StripTrailingWhitespace(SubSeq(str, 1, Len(str) - 1))
    ELSE str

\* The source text of tag token i before its terminating ">", without the
\* whitespace that precedes the ">".
BeforeGt(i) == StripTrailingWhitespace(SubSeq(TokenText(i), 1, Len(TokenText(i)) - 1))

\* The source text of tag token i before its terminating ">" ends with an
\* unquoted attribute value: "=", whitespace, and the value of the last
\* attribute.
EndsInUnquotedValue(i) ==
    /\ tokens[i].attributes # <<>>
    /\ LET attr == tokens[i].attributes[Len(tokens[i].attributes)]
           before == SubSeq(BeforeGt(i), 1, Len(BeforeGt(i)) - Len(attr.value))
       IN  /\ attr.quoteType = "Unquoted"
           /\ Len(attr.value) <= Len(BeforeGt(i))
           /\ SubSeq(BeforeGt(i), Len(before) + 1, Len(BeforeGt(i))) = attr.value
           /\ StripTrailingWhitespace(before) # <<>>
           /\ StripTrailingWhitespace(before)[Len(StripTrailingWhitespace(before))] = Eq

\* The terminating ">" of tag token i is preceded by a "/" that lies
\* outside any attribute value and is followed only by whitespace.
SlashBeforeGt(i) ==
    /\ BeforeGt(i)[Len(BeforeGt(i))] = Slash
    /\ ~EndsInUnquotedValue(i)

\* The last n characters of str.
Last(str, n) == SubSeq(str, Len(str) - n + 1, Len(str))

\* C18: an allowed tag is rendered ending in " />" exactly when its
\* terminating ">" is preceded by a "/" that lies outside any attribute
\* value and is followed only by whitespace (it is then a SelfClosingTag
\* token); in every other case it is rendered ending in ">".
C18_SelfClosingRendering ==
    (pc = "done" /\ ~caught) =>
        \A i \in DOMAIN tokens :
            IsAllowedTagToken(i) =>
                /\ Last(result[i], 1) = <<Gt>>
                /\ (Last(result[i], 3) = <<" ", Slash, Gt>>) <=> SlashBeforeGt(i)
                /\ (tokens[i].tokenType = "selfClosingTag") <=> SlashBeforeGt(i)

\* C18 witness: the allowed tag "<b/ >", with whitespace between the "/"
\* and the ">", rendered as "<b />" (with default attributes, if any).
C18_Witness ==
    /\ pc = "done"
    /\ ~caught
    /\ \E i \in DOMAIN tokens :
           /\ IsAllowedTagToken(i)
           /\ TokenText(i) = <<"<", "b", "/", " ", ">">>
           /\ SubSeq(result[i], 1, 2) = <<"<", "b">>
           /\ Last(result[i], 3) = <<" ", "/", ">">>

\* The tag name as it is written in the source text of token i: after the
\* "<" of an open tag up to the next whitespace, "/" or ">"; in a close
\* tag from the first letter after the "</" up to the next whitespace or
\* ">".
WrittenName(i) ==
    IF tokens[i].tokenType = "closeTag"
    THEN LET text == TokenText(i)
             from == CHOOSE j \in 3..Len(text) :
                         /\ isASCIIAlpha(text[j])
                         /\ \A k \in 3..(j - 1) : ~isASCIIAlpha(text[k])
             to == CHOOSE j \in from..Len(text) :
                       /\ text[j] = Gt \/ isWhitespace(text[j])
                       /\ \A k \in from..(j - 1) : ~(text[k] = Gt \/ isWhitespace(text[k]))
         IN  SubSeq(text, from, to - 1)
    ELSE NameRun(TokenText(i), 2)

\* The allow-list has a rule for the name, whatever the letter case of the
\* two.
ListedIgnoringCase(name) ==
    \E r \in DOMAIN options.allowedTags :
        toLowerCase(options.allowedTags[r].tagName) = toLowerCase(name)

\* C19: a tag is looked up in the allow-list ignoring letter case, for
\* open and for close tags, and an allowed tag is rendered with its name
\* as it is written in the source; a tag that is not allowed is escaped.
C19_LookupIgnoresCase ==
    (pc = "done" /\ ~caught) =>
        \A i \in DOMAIN tokens :
            tokens[i].tokenType # "text" =>
                IF ListedIgnoringCase(WrittenName(i))
                THEN IF tokens[i].tokenType = "closeTag"
                     THEN result[i] = <<"<", "/">> \o WrittenName(i) \o <<">">>
                     ELSE /\ SubSeq(result[i], 1, 1 + Len(WrittenName(i)))
                                = <<"<">> \o WrittenName(i)
                          /\ result[i][2 + Len(WrittenName(i))] \in {" ", ">"}
                ELSE result[i][1] = "&"

\* C19 witness: an open tag and a close tag written in upper case, allowed
\* by a rule spelled in lower case and rendered in upper case.
C19_Witness ==
    /\ pc = "done"
    /\ ~caught
    /\ \E i, j \in DOMAIN tokens :
           /\ IsTag(i)
           /\ tokens[j].tokenType = "closeTag"
           /\ WrittenName(i) = <<"B">>
           /\ WrittenName(j) = <<"B">>
           /\ \A r \in DOMAIN options.allowedTags :
                  options.allowedTags[r].tagName = <<"b">>
           /\ SubSeq(result[i], 1, 2) = <<"<", "B">>
           /\ result[j] = <<"<", "/", "B", ">">>

\* C20: sanitizeHref returns null for every raw href whose decoded form
\* holds a character of U+0000..U+001F or U+007F, whether the character
\* is written as it is, as a numeric reference or as an escape.
C20_ControlCharactersRejected ==
    (pc = "done" /\ hrefParts # <<>> /\ Decodable(hrefParts)) =>
        ((\E c \in Range(Stands(hrefParts)) :
             c \in Range(ControlCharacters) \/ c = "U+007F")
         => href = [kind |-> "null"])

\* C20 witness: the raw href "/&#x7f;", which begins with no scheme and
\* holds U+007F written as a hexadecimal reference, has been rejected.
C20_Witness ==
    /\ pc = "done"
    /\ Decodable(hrefParts)
    /\ SchemeOf(Stands(hrefParts)) = <<>>
    /\ Len(hrefParts) = 2
    /\ hrefParts[1].stands = <<"/">>
    /\ hrefParts[2].stands = <<"U+007F">>
    /\ href = [kind |-> "null"]

\* The decoded form of the raw href holds a control character.
HoldsControlCharacter(parts) ==
    \E c \in Range(Stands(parts)) : c \in Range(ControlCharacters) \/ c = "U+007F"

\* C21: sanitizeHref returns the empty string for the empty string, and a
\* string (not null) for every raw href whose decoded form holds no
\* control character and begins with no scheme.
C21_RelativeAccepted ==
    pc = "done" =>
        /\ raw = <<>> => href = [kind |-> "string", value |-> <<>>]
        /\ (/\ Decodable(hrefParts)
            /\ ~HoldsControlCharacter(hrefParts)
            /\ SchemeOf(Stands(hrefParts)) = <<>>)
           => href.kind = "string"

\* C21 witness: a raw href that holds a ":" but begins with no scheme (a
\* path comes first) has been accepted.
C21_Witness ==
    /\ pc = "done"
    /\ Decodable(hrefParts)
    /\ Len(hrefParts) >= 2
    /\ hrefParts[1].stands = <<"/">>
    /\ ":" \in Range(Stands(hrefParts))
    /\ href.kind = "string"

\* C22: sanitizeHref is total: it returns a string or null for every raw
\* href and never throws, also when a reference denotes a code point above
\* U+10FFFF.
C22_NeverThrows ==
    pc = "done" => href.kind \in {"string", "null"}

\* The text with every space replaced by "%20".
SpacesEncoded(text) ==
    Flatten([i \in DOMAIN text |->
                IF text[i] = " " THEN <<"%", "2", "0">> ELSE <<text[i]>>])

\* C23: a value sanitizeHref accepts is returned without any space: it is
\* the decoded value with every space replaced by "%20", with and without
\* a scheme.
C23_SpacesEncoded ==
    (pc = "done" /\ href.kind = "string") =>
        /\ " " \notin Range(href.value)
        /\ Decodable(hrefParts) => href.value = SpacesEncoded(Stands(hrefParts))

\* C23 witness: an accepted http href with a space in it.
C23_Witness ==
    /\ pc = "done"
    /\ Decodable(hrefParts)
    /\ toLowerCase(SchemeOf(Stands(hrefParts))) = <<"h", "t", "t", "p">>
    /\ Count(Stands(hrefParts), " ") = 1
    /\ href.kind = "string"
    /\ Count(href.value, "%") = 1

EndEvents(events) == Cardinality({i \in DOMAIN events : events[i][1] = "onend"})

\* C25: Tokenizer.parse invokes onend exactly once, and onend is the last
\* callback it invokes: no onend before finish, and after finish one
\* onend, at the end of the events.
C25_OnEndOnceAndLast ==
    /\ pc # "done" => EndEvents(tokenizer.events) = 0
    /\ pc = "done" =>
           /\ EndEvents(tokenizer.events) = 1
           /\ tokenizer.events[Len(tokenizer.events)] = <<"onend">>

\* C25 witness: parse has ended on a chunk that stops inside a quoted
\* attribute value.
C25_Witness ==
    /\ pc = "done"
    /\ tokenizer.state = "InAttributeValueDq"
    /\ tokenizer.events[Len(tokenizer.events)] = <<"onend">>

\* C26: parse ends, in one pass: every iteration of the loop leaves index
\* one higher, whatever the state handlers did, and at most three state
\* handlers process a character.
C26_SinglePass ==
    /\ [][(pc = "loop" /\ pc' = "loop") => tokenizer'.index = tokenizer.index + 1]_vars
    /\ [](Len(tokenizer.chain) <= 3)
    /\ <>(pc = "done")

\* C26 witness: a character has been processed by three state handlers.
C26_Witness ==
    /\ pc = "loop"
    /\ tokenizer.chain = <<"stateInAttributeName", "stateAfterAttributeName",
                           "stateBeforeAttributeName">>

\* C27: a call sanitize(value) with a value that is no string does not
\* throw, logs one warning, and returns what sanitizing String(value)
\* returns.
C27_NonStringCoerced ==
    (pc = "done" /\ value.type # "string") =>
        /\ outcome = "returned"
        /\ warnings = 1
        /\ html = sanitize(allowedTagsMap, value.string).html

\* The place in a tag's events after event e, from place mode: "outside"
\* a tag, in a "tag" between attributes, after an attribute "name", after
\* its "data", at the "end"; "violation" when e may not occur there.
ProtocolStep(mode, e) ==
    CASE e[1] \in {"ontext", "onclosetag"} ->
             IF mode = "outside" THEN "outside" ELSE "violation"
      [] e[1] = "onopentagname" ->
             IF mode = "outside" THEN "tag" ELSE "violation"
      [] e[1] = "onattribname" ->
             IF mode = "tag" THEN "name" ELSE "violation"
      [] e[1] = "onattribdata" ->
             IF mode = "name" THEN "data" ELSE "violation"
      [] e[1] = "onattribend" ->
             IF e[2] = "NoValue"
             THEN IF mode = "name" THEN "tag" ELSE "violation"
             ELSE IF mode = "data" THEN "tag" ELSE "violation"
      [] e[1] \in {"onopentagend", "onselfclosingtag"} ->
             IF mode = "tag" THEN "outside" ELSE "violation"
      [] e[1] = "onend" ->
             IF mode \in {"end", "violation"} THEN "violation" ELSE "end"

RECURSIVE Protocol(_, _, _)
\* The place after the events from the i-th on, from place mode.
Protocol(events, i, mode) ==
    IF i > Len(events) \/ mode = "violation" THEN mode
    ELSE Protocol(events, i + 1, ProtocolStep(mode, events[i]))

\* C29: the events of the Tokenizer follow the protocol of a tag at every
\* moment of parse: after onopentagname come groups of one onattribname,
\* at most one onattribdata and one onattribend, then one onopentagend or
\* onselfclosingtag unless the input ends; onattribend(NoValue) follows
\* the name, every other onattribend follows one onattribdata; no
\* attribute event occurs elsewhere.
C29_EventProtocol == Protocol(tokenizer.events, 1, "outside") # "violation"

\* C29 witness: a tag with an attribute with an empty quoted value has
\* been closed.
C29_Witness ==
    /\ pc = "done"
    /\ tokenizer.events = << <<"onopentagname">>,
                             <<"onattribname">>, <<"onattribdata">>,
                             <<"onattribend", "Double">>,
                             <<"onopentagend">>, <<"onend">> >>

\* C28: the slices rawHtmlText.slice(startIndex, endIndex) of the tokens
\* that Parser.parse returns, one after the other, are rawHtmlText.
C28_SlicesRebuildInput ==
    pc = "done" =>
        Flatten([i \in DOMAIN parserTokens |->
                    slice(rawHtmlText, parserTokens[i].startIndex,
                          parserTokens[i].endIndex)]) = rawHtmlText

RECURSIVE Find(_, _, _)
\* The first index from i on at which s holds a character of class, or
\* Len(s) + 1.
Find(s, i, class) ==
    IF i > Len(s) \/ s[i] \in class THEN i ELSE Find(s, i + 1, class)

RECURSIVE AttributesFrom(_, _)
\* The attributes written in the text of a tag from index k on, read off
\* the text: whitespace and "/" separate attributes; a name is one
\* character and what follows it up to "=", "/", ">" or whitespace; a
\* value follows "=", both possibly after whitespace, and is quoted, up to
\* the next quote of that kind, or unquoted, up to whitespace or ">".
AttributesFrom(text, k) ==
    LET from == RunEnd(text, k, Whitespace \cup {"/"})
        nameEnd == Find(text, from + 1, Whitespace \cup {"=", "/", ">"})
        name == SubSeq(text, from, nameEnd - 1)
        after == RunEnd(text, nameEnd, Whitespace)
        v == RunEnd(text, after + 1, Whitespace)
        close == Find(text, v + 1, {text[v]})
        valueEnd == Find(text, v, Whitespace \cup {">"})
    IN IF from > Len(text) \/ text[from] = ">" THEN <<>>
       ELSE IF after > Len(text) \/ text[after] # "="
       THEN <<[name |-> name, value |-> <<>>, quoteType |-> "NoValue"]>>
            \o AttributesFrom(text, after)
       ELSE IF v > Len(text) THEN <<>>
       ELSE IF text[v] \in {"\"", "'"}
       THEN <<[name |-> name, value |-> SubSeq(text, v + 1, close - 1),
               quoteType |-> IF text[v] = "\"" THEN "Double" ELSE "Single"]>>
            \o AttributesFrom(text, close + 1)
       ELSE <<[name |-> name, value |-> SubSeq(text, v, valueEnd - 1),
               quoteType |-> "Unquoted"]>>
            \o AttributesFrom(text, valueEnd)

\* The attributes written in the text of a tag, after its name.
WrittenAttributes(text) ==
    AttributesFrom(text, Find(text, 2, Whitespace \cup {"/", ">"}))

\* C30: the attributes of every OpenTag and SelfClosingTag token are the
\* attributes written in the input between the name of that tag and its
\* ">", in their order, each with its name, value and quote style, and no
\* others.
C30_AttributesOfTheTag ==
    pc = "done" =>
        \A i \in DOMAIN tokens :
            IsTag(i) => tokens[i].attributes = WrittenAttributes(TokenText(i))

\* C30 witness: a tag with an attribute is followed by a tag without one.
C30_Witness ==
    /\ pc = "done"
    /\ Len(tokens) >= 2
    /\ IsTag(1) /\ IsTag(2)
    /\ tokens[1].attributes = <<[name |-> <<"s">>, value |-> <<>>, quoteType |-> "NoValue"]>>
    /\ tokens[2].attributes = <<>>

\* The text without the space characters it begins with.
WithoutLeadingSpaces(text) == SubSeq(text, RunEnd(text, 1, {" "}), Len(text))

\* C38: sanitizeHref returns null for every raw href whose decoded form,
\* after the spaces it begins with, begins with a scheme other than http
\* and https.
C38_SchemeAfterSpacesRejected ==
    (pc = "done" /\ hrefParts # <<>> /\ Decodable(hrefParts)) =>
        LET scheme == toLowerCase(SchemeOf(WithoutLeadingSpaces(Stands(hrefParts))))
        IN  (scheme # <<>> /\ scheme \notin {<<"h", "t", "t", "p">>,
                                            <<"h", "t", "t", "p", "s">>})
                => href = [kind |-> "null"]

\* The index of the first "<" of the input, or Len(htmlText) + 1.
FirstLt == Find(htmlText, 1, {"<"})

\* Every token is a text.
OnlyText == \A i \in DOMAIN tokens : tokens[i].tokenType = "text"

\* C31: a "<" followed by a character that is neither an ASCII letter nor
\* "/" starts no tag: every tag token starts at a "<" that a letter or a
\* "/" follows; when the first "<" of the input is followed by "<b>", the
\* first "<" ends a text and the tag starts at the second; and an input
\* whose only "<" is followed by another character is text as a whole and
\* is returned escaped.
C31_NoTagAfterOtherCharacter ==
    pc = "done" =>
        /\ \A i \in DOMAIN tokens :
               tokens[i].tokenType # "text" =>
                   /\ htmlText[tokens[i].start + 1] = "<"
                   /\ tokens[i].start + 2 <= Len(htmlText)
                   /\ \/ isASCIIAlpha(htmlText[tokens[i].start + 2])
                      \/ htmlText[tokens[i].start + 2] = "/"
        /\ (/\ FirstLt + 3 <= Len(htmlText)
            /\ SubSeq(htmlText, FirstLt + 1, FirstLt + 3) = <<"<", "b", ">">>) =>
               \E i \in DOMAIN tokens :
                   /\ i > 1
                   /\ tokens[i - 1].tokenType = "text"
                   /\ tokens[i - 1].end = FirstLt
                   /\ result[i - 1][Len(result[i - 1])] = ";"
                   /\ tokens[i].tokenType = "openTag"
                   /\ tokens[i].start = FirstLt
                   /\ tokens[i].end = FirstLt + 3
        /\ (/\ FirstLt < Len(htmlText)
            /\ ~isASCIIAlpha(htmlText[FirstLt + 1])
            /\ htmlText[FirstLt + 1] \notin {"/", "<"}
            /\ Count(htmlText, "<") = 1)
           => (OnlyText /\ html = escapeText(htmlText))

\* C31 witness: "<<b>>" has given the text "<", the tag b and the text ">".
C31_Witness ==
    /\ pc = "done"
    /\ htmlText = <<"<", "<", "b", ">", ">">>
    /\ Len(tokens) = 3
    /\ tokens[1] = [tokenType |-> "text", start |-> 0, end |-> 1]
    /\ tokens[2].tokenType = "openTag"
    /\ tokens[3] = [tokenType |-> "text", start |-> 4, end |-> 5]

\* The input is "<b b=" and at least n more characters.
IsValueForm(n) ==
    /\ Len(htmlText) >= 5 + n
    /\ SubSeq(htmlText, 1, 5) = <<"<", "b", " ", "b", "=">>

\* The tokens that are tags.
TagTokens == {i \in DOMAIN tokens : tokens[i].tokenType # "text"}

\* The index of the quote that closes the value opened at index 6, or
\* Len(htmlText) + 1.
ClosingQuote == Find(htmlText, 7, {htmlText[6]})

\* C32: in the input "<b b=" + quote + rest, only the next quote of the
\* same kind ends the value: without one there is no tag; with one, the
\* first attribute of the tag that begins the input is b with everything between the quotes as
\* its value, the tag ends after the closing quote, a ">" right after the
\* closing quote ends the tag, and a name right after the closing quote is
\* a second attribute.
C32_QuotedValueEndsAtItsQuote ==
    (pc = "done" /\ IsValueForm(1) /\ htmlText[6] \in {"\"", "'"}) =>
        LET attr == [name |-> <<"b">>,
                     value |-> SubSeq(htmlText, 7, ClosingQuote - 1),
                     quoteType |-> IF htmlText[6] = "\"" THEN "Double" ELSE "Single"]
        IN  /\ ClosingQuote > Len(htmlText) => OnlyText
            /\ \A i \in TagTokens :
                   IF tokens[i].start = 0
                   THEN /\ tokens[i].end > ClosingQuote
                        /\ tokens[i].attributes # <<>>
                        /\ tokens[i].attributes[1] = attr
                   ELSE tokens[i].start > ClosingQuote
            /\ (ClosingQuote < Len(htmlText) /\ htmlText[ClosingQuote + 1] = ">") =>
                   /\ tokens[1].tokenType = "openTag"
                   /\ tokens[1].end = ClosingQuote + 1
                   /\ tokens[1].attributes = <<attr>>
            /\ (/\ ClosingQuote + 1 < Len(htmlText)
                /\ htmlText[ClosingQuote + 1] = "s"
                /\ htmlText[ClosingQuote + 2] = ">") =>
                   /\ tokens[1].tokenType = "openTag"
                   /\ tokens[1].attributes =
                          <<attr, [name |-> <<"s">>, value |-> <<>>,
                                   quoteType |-> "NoValue"]>>

\* C32 witness: "<b b=\">\">" has given the tag b whose attribute b has
\* the value ">", and the rule without callback has kept it.
C32_Witness ==
    /\ pc = "done"
    /\ options = PlainOptions
    /\ htmlText = <<"<", "b", " ", "b", "=", "\"", ">", "\"", ">">>
    /\ Len(tokens) = 1
    /\ tokens[1].tokenType = "openTag"
    /\ tokens[1].attributes =
           <<[name |-> <<"b">>, value |-> <<">">>, quoteType |-> "Double"]>>
    /\ html = <<"<", "b", " ", "b", "=", "\"", "&", "g", "t", ";", "\"", ">">>

\* The index of the whitespace or ">" that ends the unquoted value begun
\* at index 6, or Len(htmlText) + 1.
UnquotedEnd == Find(htmlText, 6, Whitespace \cup {">"})

\* C33: in the input "<b b=" + rest, where rest begins with neither a
\* quote, nor whitespace, nor ">", the value ends only at whitespace or
\* ">": without one there is no tag; with one, the first attribute of the
\* tag that begins the input is the unquoted b with everything up to there as its value, "/",
\* quotes, "=" and "<" included; and when it is ">" that ends the value the
\* tag is an open tag with that one attribute, never a self-closing tag.
C33_UnquotedValueEndsAtSpaceOrGt ==
    (/\ pc = "done"
     /\ IsValueForm(1)
     /\ htmlText[6] \notin Whitespace \cup {"\"", "'", ">"}) =>
        LET attr == [name |-> <<"b">>,
                     value |-> SubSeq(htmlText, 6, UnquotedEnd - 1),
                     quoteType |-> "Unquoted"]
        IN  /\ UnquotedEnd > Len(htmlText) => OnlyText
            /\ \A i \in TagTokens :
                   IF tokens[i].start = 0
                   THEN /\ tokens[i].end >= UnquotedEnd
                        /\ tokens[i].attributes # <<>>
                        /\ tokens[i].attributes[1] = attr
                   ELSE tokens[i].start >= UnquotedEnd
            /\ (UnquotedEnd <= Len(htmlText) /\ htmlText[UnquotedEnd] = ">") =>
                   /\ tokens[1].tokenType = "openTag"
                   /\ tokens[1].end = UnquotedEnd
                   /\ tokens[1].attributes = <<attr>>

\* C33 witness: "<b b=s/>" has given the open tag b whose attribute b has
\* the value "s/", and the rule without callback has kept it.
C33_Witness ==
    /\ pc = "done"
    /\ options = PlainOptions
    /\ htmlText = <<"<", "b", " ", "b", "=", "s", "/", ">">>
    /\ Len(tokens) = 1
    /\ tokens[1].tokenType = "openTag"
    /\ tokens[1].attributes =
           <<[name |-> <<"b">>, value |-> <<"s", "/">>, quoteType |-> "Unquoted"]>>
    /\ html = <<"<", "b", " ", "b", "=", "\"", "s", "/", "\"", ">">>

\* The input is "<b b" and at least n more characters.
IsNameForm(n) ==
    /\ Len(htmlText) >= 4 + n
    /\ SubSeq(htmlText, 1, 4) = <<"<", "b", " ", "b">>

\* The index of the first character after the name b that is no
\* whitespace, or Len(htmlText) + 1.
AfterName == RunEnd(htmlText, 5, Whitespace)

\* The index of the first character after index k that is no whitespace,
\* or Len(htmlText) + 1.
AfterSpaces(k) == RunEnd(htmlText, k + 1, Whitespace)

\* C34: in the input "<b b" + whitespace + "=" + whitespace + ">" + rest
\* (either whitespace possibly empty), the ">" ends the tag, whose only
\* attribute is the unquoted b with the empty value, and the rule without
\* callback renders the tag as <b b="">.
C34_EmptyUnquotedValue ==
    (/\ pc = "done"
     /\ IsNameForm(2)
     /\ AfterName < Len(htmlText)
     /\ htmlText[AfterName] = "="
     /\ AfterSpaces(AfterName) <= Len(htmlText)
     /\ htmlText[AfterSpaces(AfterName)] = ">") =>
        /\ tokens[1].tokenType = "openTag"
        /\ tokens[1].start = 0
        /\ tokens[1].end = AfterSpaces(AfterName)
        /\ tokens[1].attributes =
               <<[name |-> <<"b">>, value |-> <<>>, quoteType |-> "Unquoted"]>>
        /\ options = PlainOptions =>
               result[1] = <<"<", "b", " ", "b", "=", "\"", "\"", ">">>

\* C34 witness: "<b b=>s" has given the open tag b with the unquoted empty
\* attribute b, written <b b="">, and the text s.
C34_Witness ==
    /\ pc = "done"
    /\ options = PlainOptions
    /\ htmlText = <<"<", "b", " ", "b", "=", ">", "s">>
    /\ Len(tokens) = 2
    /\ tokens[1].attributes =
           <<[name |-> <<"b">>, value |-> <<>>, quoteType |-> "Unquoted"]>>
    /\ tokens[2] = [tokenType |-> "text", start |-> 6, end |-> 7]
    /\ html = <<"<", "b", " ", "b", "=", "\"", "\"", ">", "s">>

\* The attribute b without value.
BareB == [name |-> <<"b">>, value |-> <<>>, quoteType |-> "NoValue"]

\* C35: in the input "<b b" + whitespace + rest (the whitespace possibly
\* empty), where rest begins with "/", with ">" or, after whitespace, with
\* the name s, the first attribute of the tag that begins the input is b
\* without value: a ">"
\* ends an open tag with that one attribute, written <b b>; "/>" ends a
\* self-closing tag with that one attribute; and "s>" makes s a second
\* attribute without value, the tag being written <b b s>.
C35_NameWithoutValue ==
    (/\ pc = "done"
     /\ IsNameForm(1)
     /\ AfterName <= Len(htmlText)
     /\ \/ htmlText[AfterName] \in {"/", ">"}
        \/ htmlText[AfterName] = "s" /\ AfterName > 5) =>
        /\ \A i \in TagTokens :
               IF tokens[i].start = 0
               THEN /\ tokens[i].end >= AfterName
                    /\ tokens[i].attributes # <<>>
                    /\ tokens[i].attributes[1] = BareB
               ELSE tokens[i].start >= AfterName
        /\ htmlText[AfterName] = ">" =>
               /\ tokens[1].tokenType = "openTag"
               /\ tokens[1].end = AfterName
               /\ tokens[1].attributes = <<BareB>>
               /\ options = PlainOptions => result[1] = <<"<", "b", " ", "b", ">">>
        /\ (/\ AfterName < Len(htmlText)
            /\ htmlText[AfterName] = "/"
            /\ htmlText[AfterName + 1] = ">") =>
               /\ tokens[1].tokenType = "selfClosingTag"
               /\ tokens[1].end = AfterName + 1
               /\ tokens[1].attributes = <<BareB>>
        /\ (/\ AfterName < Len(htmlText)
            /\ htmlText[AfterName] = "s"
            /\ htmlText[AfterName + 1] = ">") =>
               /\ tokens[1].tokenType = "openTag"
               /\ tokens[1].attributes =
                      <<BareB, [name |-> <<"s">>, value |-> <<>>,
                                quoteType |-> "NoValue"]>>
               /\ options = PlainOptions =>
                      result[1] = <<"<", "b", " ", "b", " ", "s", ">">>

\* C35 witness: "<b b s>" has given the open tag b with the attributes b
\* and s, both without value, written as bare names.
C35_Witness ==
    /\ pc = "done"
    /\ options = PlainOptions
    /\ htmlText = <<"<", "b", " ", "b", " ", "s", ">">>
    /\ Len(tokens) = 1
    /\ tokens[1].attributes =
           <<BareB, [name |-> <<"s">>, value |-> <<>>, quoteType |-> "NoValue"]>>
    /\ html = htmlText

\* C36: when the first "<" of the input is followed by "/", optional
\* whitespace and ">", no close tag comes of it: one text token begins at
\* that "<", holds everything up to and including that ">" and the text
\* that follows up to the next "<", and is written escaped; no tag token
\* begins before that ">".
C36_EmptyCloseTagIsText ==
    (/\ pc = "done"
     /\ FirstLt < Len(htmlText)
     /\ htmlText[FirstLt + 1] = "/"
     /\ AfterSpaces(FirstLt + 1) <= Len(htmlText)
     /\ htmlText[AfterSpaces(FirstLt + 1)] = ">") =>
        /\ \E i \in DOMAIN tokens :
               /\ tokens[i].tokenType = "text"
               /\ tokens[i].start = FirstLt - 1
               /\ tokens[i].end =
                      Find(htmlText, AfterSpaces(FirstLt + 1), {"<"}) - 1
               /\ result[i] = escapeText(TokenText(i))
               /\ ~ \E k \in DOMAIN result[i] : result[i][k] \in {"<", ">"}
        /\ \A i \in TagTokens : tokens[i].start >= AfterSpaces(FirstLt + 1)

\* C36 witness: "s</ >b" has given the text "s" and the text "</ >b",
\* and is written "s&lt;/ &gt;b".
C36_Witness ==
    /\ pc = "done"
    /\ htmlText = <<"s", "<", "/", " ", ">", "b">>
    /\ tokens = <<[tokenType |-> "text", start |-> 0, end |-> 1],
                  [tokenType |-> "text", start |-> 1, end |-> 6]>>
    /\ html = <<"s", "&", "l", "t", ";", "/", " ", "&", "g", "t", ";", "b">>

\* The characters of str that are no whitespace.
WithoutWhitespace(str) ==
    LET NotWhitespace(c) == ~isWhitespace(c) IN SelectSeq(str, NotWhitespace)

====
